---------------------------- MODULE Spec2Model ----------------------------
(***************************************************************************)
(* A model of PhloxAR/loader/math3d.py: the 2D/3D primitives (Point, Line, *)
(* Ray, LineSegment, Circle, Sphere, Plane), their constructors, the       *)
(* double-dispatch protocol behind intersect / connect / distance and the  *)
(* pairwise algorithms it resolves to.                                     *)
(*                                                                         *)
(* Numbers.  The program computes in floating point; the model computes in *)
(* exact rationals <<n, d>> (d > 0, lowest terms).  A square root that is  *)
(* not rational is the value Irr, which every arithmetic operation         *)
(* propagates; the operands the model draws are those on which no          *)
(* algorithm produces Irr (RoundOK, NoIrr).                                *)
(*                                                                         *)
(* Accessors.  The vector accessors copy, magnitude, magnitude_squared and *)
(* abs() are modelled by the value they compute, whether the call site     *)
(* spells them as an attribute or as a call.                               *)
(***************************************************************************)
EXTENDS Integers, Sequences, FiniteSets, TLC

VARIABLES pc, op, lhs, rhs, given, how, res, howrev, rev

vars == <<pc, op, lhs, rhs, given, how, res, howrev, rev>>

---------------------------------------------------------------------------
(* Bounds of the model.                                                    *)

\* coordinates of the drawn points range over 0 .. MaxCoord
MaxCoord == 2
\* radii of the drawn circles and spheres range over 0 .. MaxRadius
MaxRadius == 2
\* components of the drawn quaternions range over -MaxQuat .. MaxQuat
MaxQuat == 1
\* at most MaxChain mutator calls are chained on one matrix
MaxChain == 2

---------------------------------------------------------------------------
(* Exact rational arithmetic.                                              *)

IAbs(n) == IF n < 0 THEN -n ELSE n

RECURSIVE GCD(_, _)
GCD(a, b) == IF b = 0 THEN a ELSE GCD(b, a % b)

Rat(n, d) ==
    LET g == GCD(IAbs(n), IAbs(d))
        s == IF d < 0 THEN -1 ELSE 1
    IN  <<(s * n) \div g, (s * d) \div g>>

Q(n) == <<n, 1>>

Irr == <<0, 0>>

IsIrr(a) == a[2] = 0

a ++ b == IF IsIrr(a) \/ IsIrr(b) THEN Irr
          ELSE Rat(a[1] * b[2] + b[1] * a[2], a[2] * b[2])

a -- b == IF IsIrr(a) \/ IsIrr(b) THEN Irr
          ELSE Rat(a[1] * b[2] - b[1] * a[2], a[2] * b[2])

a ** b == IF IsIrr(a) \/ IsIrr(b) THEN Irr
          ELSE Rat(a[1] * b[1], a[2] * b[2])

\* true division (from __future__ import division); the divisor is not zero
a // b == IF IsIrr(a) \/ IsIrr(b) THEN Irr
          ELSE Rat(a[1] * b[2], a[2] * b[1])

RNeg(a) == <<-a[1], a[2]>>

RLt(a, b) == ~IsIrr(a) /\ ~IsIrr(b) /\ a[1] * b[2] < b[1] * a[2]

RLe(a, b) == ~IsIrr(a) /\ ~IsIrr(b) /\ a[1] * b[2] <= b[1] * a[2]

IsZero(a) == ~IsIrr(a) /\ a[1] = 0

\* Python's min / max of two numbers
RMin(a, b) == IF IsIrr(a) \/ IsIrr(b) THEN Irr ELSE IF RLt(b, a) THEN b ELSE a

RMax(a, b) == IF IsIrr(a) \/ IsIrr(b) THEN Irr ELSE IF RLt(a, b) THEN b ELSE a

RECURSIVE ISqrtFrom(_, _)
ISqrtFrom(n, k) == IF k * k >= n THEN k ELSE ISqrtFrom(n, k + 1)

IsSquare(n) == n >= 0 /\ ISqrtFrom(n, 0) * ISqrtFrom(n, 0) = n

\* math.sqrt of a non-negative number
Sqrt(a) ==
    IF IsIrr(a) \/ ~IsSquare(a[1]) \/ ~IsSquare(a[2]) THEN Irr
    ELSE <<ISqrtFrom(a[1], 0), ISqrtFrom(a[2], 0)>>

\* max(min(u, 1.0), 0.0)
Clamp01(u) == RMax(RMin(u, Q(1)), Q(0))

---------------------------------------------------------------------------
(* Values.  Every value is a record with a cls field: the class of an      *)
(* object, "None", "bool" or "Error" (a raised exception).                 *)

None == [cls |-> "None"]

Bool(b) == [cls |-> "bool", b |-> b]

\* names: the operand classes the exception's message names
Error(exc, msg, names) == [cls |-> "Error", exc |-> exc, msg |-> msg, names |-> names]

IsError(x) == x.cls = "Error"

ZeroDivisionError == Error("ZeroDivisionError", "float division by zero", {})

AssertionError == Error("AssertionError", "", {})

---------------------------------------------------------------------------
(* Vector2 / Vector3.                                                      *)

Vector2(x, y) == [cls |-> "Vector2", x |-> x, y |-> y]

Point2(x, y) == [cls |-> "Point2", x |-> x, y |-> y]

Vector3(x, y, z) == [cls |-> "Vector3", x |-> x, y |-> y, z |-> z]

Point3(x, y, z) == [cls |-> "Point3", x |-> x, y |-> y, z |-> z]

Is2(a) == a.cls \in {"Vector2", "Point2"}

Is3(a) == a.cls \in {"Vector3", "Point3"}

\* Vector2.__nonzero__ / Vector3.__nonzero__
Vector2_nonzero(a) == ~IsZero(a.x) \/ ~IsZero(a.y)

Vector3_nonzero(a) == ~IsZero(a.x) \/ ~IsZero(a.y) \/ ~IsZero(a.z)

\* Vector3.__eq__ on two Vector3
Vector3_eq(a, b) == a.x = b.x /\ a.y = b.y /\ a.z = b.z

\* Vector2.__sub__: isinstance(object, Vector2) is false, so the else branch
\* runs and the result is a Vector2 whatever the operand classes
Vector2_sub(a, b) == Vector2(a.x -- b.x, a.y -- b.y)

\* Vector3.__sub__: _class is computed and not used; the result is a Vector3
Vector3_sub(a, b) == Vector3(a.x -- b.x, a.y -- b.y, a.z -- b.z)

\* Vector2.__mul__ / __imul__ by a number: the class of an in-place product
\* is the receiver's (here always a Vector2)
Vector2_mul(a, s) == Vector2(a.x ** s, a.y ** s)

Vector3_mul(a, s) == Vector3(a.x ** s, a.y ** s, a.z ** s)

Vector2_magnitude_squared(a) == (a.x ** a.x) ++ (a.y ** a.y)

Vector3_magnitude_squared(a) == ((a.x ** a.x) ++ (a.y ** a.y)) ++ (a.z ** a.z)

Vector2_magnitude(a) == Sqrt(Vector2_magnitude_squared(a))

Vector3_magnitude(a) == Sqrt(Vector3_magnitude_squared(a))

Vector2_dot(a, b) == (a.x ** b.x) ++ (a.y ** b.y)

Vector3_dot(a, b) == ((a.x ** b.x) ++ (a.y ** b.y)) ++ (a.z ** b.z)

Vector3_cross(a, b) ==
    Vector3((a.y ** b.z) -- (a.z ** b.y),
            (a.z ** b.x) -- (a.x ** b.z),
            (a.x ** b.y) -- (a.y ** b.x))

\* Vector2.normalize (in place): a zero vector is left as it is
Vector2_normalize(a) ==
    LET d == Vector2_magnitude(a)
    IN  IF IsZero(d) THEN a ELSE [a EXCEPT !.x = a.x // d, !.y = a.y // d]

\* Vector3.normalize (in place)
Vector3_normalize(a) ==
    LET d == Vector3_magnitude(a)
    IN  IF IsZero(d) THEN a
        ELSE [a EXCEPT !.x = a.x // d, !.y = a.y // d, !.z = a.z // d]

\* Vector3.normalized: the normalized vector is built and dropped (no
\* return); what is returned is self.copy, of the receiver's class
Vector3_normalized(a) == a

---------------------------------------------------------------------------
(* Constructors.  args is the tuple of constructor arguments.              *)

IsLine2(a) == a.cls \in {"Line2", "Ray2", "LineSegment2"}

IsLine3(a) == a.cls \in {"Line3", "Ray3", "LineSegment3"}

AttributeError(msg, names) == Error("AttributeError", msg, names)

\* v * length / m of the three-argument constructors, m being abs(v)
Vector2_scaled(p, v, len, m) ==
    IF IsZero(m) THEN ZeroDivisionError
    ELSE [cls |-> "pv", p |-> p,
          v |-> Vector2((v.x ** len) // m, (v.y ** len) // m)]

Vector3_scaled(p, v, len, m) ==
    IF IsZero(m) THEN ZeroDivisionError
    ELSE [cls |-> "pv", p |-> p,
          v |-> Vector3((v.x ** len) // m, (v.y ** len) // m, (v.z ** len) // m)]

\* the p and v that Line2.__init__ takes from its arguments
Line2_args(args) ==
    IF Len(args) = 3 THEN
        Vector2_scaled(args[1], args[2], args[3].f, Vector2_magnitude(args[2]))
    ELSE IF Len(args) = 2 THEN
        IF args[1].cls = "Point2" /\ args[2].cls = "Point2" THEN
            [cls |-> "pv", p |-> args[1], v |-> Vector2_sub(args[2], args[1])]
        ELSE IF args[1].cls = "Point2" /\ Is2(args[2]) THEN
            [cls |-> "pv", p |-> args[1], v |-> args[2]]
        ELSE AttributeError("args", {})
    ELSE IF Len(args) = 1 THEN
        IF IsLine2(args[1]) THEN
            [cls |-> "pv", p |-> args[1].p, v |-> args[1].v]
        ELSE AttributeError("args", {})
    ELSE AttributeError("args", {})

\* the closing check of Line2.__init__: if not self.v: raise
Line2_checked(cls, pv) ==
    IF IsError(pv) THEN pv
    ELSE IF ~Vector2_nonzero(pv.v) THEN
        AttributeError("Line has zero-length vector", {})
    ELSE [cls |-> cls, p |-> pv.p, v |-> pv.v]

\* Line2.__init__, inherited unchanged by Ray2 and LineSegment2
Line2_init(cls, args) == Line2_checked(cls, Line2_args(args))

\* the p and v that Line3.__init__ takes from its arguments
Line3_args(args) ==
    IF Len(args) = 3 THEN
        Vector3_scaled(args[1], args[2], args[3].f, Vector3_magnitude(args[2]))
    ELSE IF Len(args) = 2 THEN
        IF args[1].cls = "Point3" /\ args[2].cls = "Point3" THEN
            [cls |-> "pv", p |-> args[1], v |-> Vector3_sub(args[2], args[1])]
        ELSE IF args[1].cls = "Point3" /\ Is3(args[2]) THEN
            [cls |-> "pv", p |-> args[1], v |-> args[2]]
        ELSE AttributeError("args", {})
    ELSE IF Len(args) = 1 THEN
        IF IsLine3(args[1]) THEN
            [cls |-> "pv", p |-> args[1].p, v |-> args[1].v]
        ELSE AttributeError("args", {})
    ELSE AttributeError("args", {})

\* the end of Line3.__init__: the zero-length check is commented out in the
\* source, so whatever v was taken is kept
Line3_checked(cls, pv) ==
    IF IsError(pv) THEN pv
    ELSE [cls |-> cls, p |-> pv.p, v |-> pv.v]

\* Line3.__init__, inherited unchanged by Ray3 and LineSegment3
Line3_init(cls, args) == Line3_checked(cls, Line3_args(args))

Line2(args) == Line2_init("Line2", args)

Ray2(args) == Line2_init("Ray2", args)

LineSegment2(p1, p2) == Line2_init("LineSegment2", <<p1, p2>>)

Line3(args) == Line3_init("Line3", args)

Ray3(args) == Line3_init("Ray3", args)

LineSegment3(p1, p2) == Line3_init("LineSegment3", <<p1, p2>>)

\* Circle.__init__ / Sphere.__init__
Circle(center, radius) == [cls |-> "Circle", c |-> center, r |-> radius]

Sphere(center, radius) == [cls |-> "Sphere", c |-> center, r |-> radius]

\* self.n = n; self.k = self.n.dot(p)
Plane_through(n, p) == [cls |-> "nk", n |-> n, k |-> Vector3_dot(n, p)]

\* the n and k that Plane.__init__ takes from its arguments
Plane_args(args) ==
    IF Len(args) = 3 THEN
        Plane_through(Vector3_normalize(
                          Vector3_cross(Vector3_sub(args[2], args[1]),
                                        Vector3_sub(args[3], args[1]))),
                      args[1])
    ELSE IF Len(args) = 2 THEN
        IF args[1].cls = "Point3" /\ Is3(args[2]) THEN
            Plane_through(Vector3_normalized(args[2]), args[1])
        ELSE IF Is3(args[1]) /\ args[2].cls = "float" THEN
            [cls |-> "nk", n |-> Vector3_normalized(args[1]), k |-> args[2].f]
        ELSE AttributeError("args", {})
    ELSE AttributeError("args", {})

\* Plane.__init__ without its closing check
Plane_unchecked(nk) ==
    IF IsError(nk) THEN nk ELSE [cls |-> "Plane", n |-> nk.n, k |-> nk.k]

\* the closing check of Plane.__init__: if not self.n: raise
Plane_checked(nk) ==
    IF IsError(nk) THEN nk
    ELSE IF ~Vector3_nonzero(nk.n) THEN
        AttributeError("Points on plane are colinear", {})
    ELSE [cls |-> "Plane", n |-> nk.n, k |-> nk.k]

\* Plane.__init__
Plane(args) == Plane_checked(Plane_args(args))

\* a float passed as a constructor argument
Float(f) == [cls |-> "float", f |-> f]

\* Line2._u_in / Ray2._u_in / LineSegment2._u_in and the 3D ones
_u_in(L, u) ==
    CASE L.cls \in {"Line2", "Line3"} -> TRUE
      [] L.cls \in {"Ray2", "Ray3"} -> RLe(Q(0), u)
      [] L.cls \in {"LineSegment2", "LineSegment3"} -> RLe(Q(0), u) /\ RLe(u, Q(1))

\* Line2.p2 / Line3.p2
Line2_p2(L) == Point2(L.p.x ++ L.v.x, L.p.y ++ L.v.y)

Line3_p2(L) == Point3(L.p.x ++ L.v.x, L.p.y ++ L.v.y, L.p.z ++ L.v.z)

\* LineSegment2._swap / LineSegment3._swap
_swap(c) ==
    IF c.cls = "LineSegment2" THEN
        [c EXCEPT !.p = Line2_p2(c), !.v = Vector2_mul(c.v, Q(-1))]
    ELSE
        [c EXCEPT !.p = Line3_p2(c), !.v = Vector3_mul(c.v, Q(-1))]

\* LineSegment2.length / LineSegment3.length
length(c) ==
    IF c.cls = "LineSegment2" THEN Vector2_magnitude(c.v) ELSE Vector3_magnitude(c.v)

---------------------------------------------------------------------------
(* Pairwise algorithms, 2D.                                                *)

\* the point p + u * v of a 2D line
At2(L, u) == Point2(L.p.x ++ (u ** L.v.x), L.p.y ++ (u ** L.v.y))

_intersect_point2_circle(P, C) ==
    Bool(RLe(Vector2_magnitude(Vector2_sub(P, C.c)), C.r))

\* a variant of _intersect_line2_line2 that takes the point at ua on B
_intersect_line2_line2_on_B(A, B) ==
    LET d == (B.v.y ** A.v.x) -- (B.v.x ** A.v.y)
        dy == A.p.y -- B.p.y
        dx == A.p.x -- B.p.x
        ua == ((B.v.x ** dy) -- (B.v.y ** dx)) // d
        ub == ((A.v.x ** dy) -- (A.v.y ** dx)) // d
    IN  IF IsZero(d) THEN None
        ELSE IF ~_u_in(A, ua) THEN None
        ELSE IF ~_u_in(B, ub) THEN None
        ELSE At2(B, ua)

_intersect_line2_line2(A, B) ==
    LET d == (B.v.y ** A.v.x) -- (B.v.x ** A.v.y)
        dy == A.p.y -- B.p.y
        dx == A.p.x -- B.p.x
        ua == ((B.v.x ** dy) -- (B.v.y ** dx)) // d
        ub == ((A.v.x ** dy) -- (A.v.y ** dx)) // d
    IN  IF IsZero(d) THEN None
        ELSE IF ~_u_in(A, ua) THEN None
        ELSE IF ~_u_in(B, ub) THEN None
        ELSE At2(A, ua)

_intersect_line2_circle(L, C) ==
    LET a == Vector2_magnitude_squared(L.v)
        b == Q(2) ** ((L.v.x ** (L.p.x -- C.c.x)) ++ (L.v.y ** (L.p.y -- C.c.y)))
        c == ((Vector2_magnitude_squared(C.c) ++ Vector2_magnitude_squared(L.p))
                -- (Q(2) ** Vector2_dot(C.c, L.p))) -- (C.r ** C.r)
        det == (b ** b) -- ((Q(4) ** a) ** c)
        sq == Sqrt(det)
        r1 == (RNeg(b) ++ sq) // (Q(2) ** a)
        r2 == (RNeg(b) -- sq) // (Q(2) ** a)
        u1 == IF ~_u_in(L, r1) THEN Clamp01(r1) ELSE r1
        u2 == IF ~_u_in(L, r2) THEN Clamp01(r2) ELSE r2
    IN  IF RLt(det, Q(0)) THEN None
        ELSE IF IsZero(a) THEN ZeroDivisionError
        ELSE IF u1 = u2 THEN At2(L, u1)
        ELSE LineSegment2(At2(L, u1), At2(L, u2))

_connect_point2_line2(P, L) ==
    LET d == Vector2_magnitude_squared(L.v)
        u0 == (((P.x -- L.p.x) ** L.v.x) ++ ((P.y -- L.p.y) ** L.v.y)) // d
        u == IF ~_u_in(L, u0) THEN Clamp01(u0) ELSE u0
    IN  IF IsZero(d) THEN AssertionError
        ELSE LineSegment2(P, At2(L, u))

_connect_point2_circle(P, C) ==
    LET v == Vector2_mul(Vector2_normalize(Vector2_sub(P, C.c)), C.r)
    IN  LineSegment2(P, Point2(C.c.x ++ v.x, C.c.y ++ v.y))

\* In the parallel branch for a Ray2 or LineSegment2 B the returned segment
\* is unpacked into p1, p2; a Line2 is not iterable
_connect_line2_line2(A, B) ==
    LET d == (B.v.y ** A.v.x) -- (B.v.x ** A.v.y)
        dy == A.p.y -- B.p.y
        dx == A.p.x -- B.p.x
        ua0 == ((B.v.x ** dy) -- (B.v.y ** dx)) // d
        ua == IF ~_u_in(A, ua0) THEN Clamp01(ua0) ELSE ua0
        ub0 == ((A.v.x ** dy) -- (A.v.y ** dx)) // d
        ub == IF ~_u_in(B, ub0) THEN Clamp01(ub0) ELSE ub0
    IN  IF IsZero(d) THEN
            IF B.cls \in {"Ray2", "LineSegment2"} THEN
                LET c == _connect_point2_line2(B.p, A)
                IN  IF IsError(c) THEN c
                    ELSE Error("TypeError", "'LineSegment2' object is not iterable", {})
            ELSE _connect_point2_line2(A.p, B)
        ELSE LineSegment2(At2(A, ua), At2(B, ub))

_connect_circle_line2(C, L) ==
    LET d == Vector2_magnitude_squared(L.v)
        u0 == (((C.c.x -- L.p.x) ** L.v.x) ++ ((C.c.y -- L.p.y) ** L.v.y)) // d
        u == IF ~_u_in(L, u0) THEN Clamp01(u0) ELSE u0
        point == At2(L, u)
        v == Vector2_mul(Vector2_normalize(Vector2_sub(point, C.c)), C.r)
    IN  IF IsZero(d) THEN AssertionError
        ELSE LineSegment2(Point2(C.c.x ++ v.x, C.c.y ++ v.y), point)

\* the sign selection were its last comparison strict (d > A.r and d > B.r):
\* touching circles and coinciding points would then take no branch
Signs_strictly_apart(ra, rb, d) ==
    IF RLe(rb, ra) /\ RLt(d, ra) THEN <<1, 1>>
    ELSE IF RLt(ra, rb) /\ RLt(d, rb) THEN <<-1, -1>>
    ELSE IF RLt(ra, d) /\ RLt(rb, d) THEN <<1, -1>>
    ELSE <<0, 0>>

\* the signs s1, s2 chosen by the if / elif / elif of the circle-circle and
\* sphere-sphere connect; <<0, 0>> when no branch is taken (s1, s2 unset)
Signs(ra, rb, d) ==
    IF RLe(rb, ra) /\ RLt(d, ra) THEN <<1, 1>>
    ELSE IF RLt(ra, rb) /\ RLt(d, rb) THEN <<-1, -1>>
    ELSE IF RLe(ra, d) /\ RLe(rb, d) THEN <<1, -1>>
    ELSE <<0, 0>>

UnboundLocalError ==
    Error("UnboundLocalError", "local variable 's1' referenced before assignment", {})

_connect_circle_circle(A, B) ==
    LET v0 == Vector2_sub(B.c, A.c)
        d == Vector2_magnitude(v0)
        s == Signs(A.r, B.r, d)
        v == Vector2_normalize(v0)
    IN  IF s[1] = 0 THEN UnboundLocalError
        ELSE LineSegment2(
                 Point2(A.c.x ++ ((Q(s[1]) ** v.x) ** A.r),
                        A.c.y ++ ((Q(s[1]) ** v.y) ** A.r)),
                 Point2(B.c.x ++ ((Q(s[2]) ** v.x) ** B.r),
                        B.c.y ++ ((Q(s[2]) ** v.y) ** B.r)))

---------------------------------------------------------------------------
(* Pairwise algorithms, 3D.                                                *)

\* the point p + u * v of a 3D line
At3(L, u) ==
    Point3(L.p.x ++ (u ** L.v.x), L.p.y ++ (u ** L.v.y), L.p.z ++ (u ** L.v.z))

_connect_point3_line3(P, L) ==
    LET d == Vector3_magnitude_squared(L.v)
        u0 == ((((P.x -- L.p.x) ** L.v.x) ++ ((P.y -- L.p.y) ** L.v.y))
                 ++ ((P.z -- L.p.z) ** L.v.z)) // d
        u == IF ~_u_in(L, u0) THEN Clamp01(u0) ELSE u0
    IN  IF IsZero(d) THEN AssertionError
        ELSE LineSegment3(P, At3(L, u))

_connect_point3_sphere(P, S) ==
    LET v == Vector3_mul(Vector3_normalize(Vector3_sub(P, S.c)), S.r)
    IN  LineSegment3(P, Point3(S.c.x ++ v.x, S.c.y ++ v.y, S.c.z ++ v.z))

_connect_point3_plane(p, plane) ==
    LET n == Vector3_normalized(plane.n)
        d == Vector3_dot(p, plane.n) -- plane.k
    IN  LineSegment3(p, Point3(p.x -- (n.x ** d), p.y -- (n.y ** d), p.z -- (n.z ** d)))

_connect_line3_line3(A, B) ==
    LET p13 == Vector3_sub(A.p, B.p)
        d1343 == Vector3_dot(p13, B.v)
        d4321 == Vector3_dot(B.v, A.v)
        d1321 == Vector3_dot(p13, A.v)
        d4343 == Vector3_magnitude_squared(B.v)
        denom == (Vector3_magnitude_squared(A.v) ** d4343) -- (d4321 ** d4321)
        ua0 == ((d1343 ** d4321) -- (d1321 ** d4343)) // denom
        ua == IF ~_u_in(A, ua0) THEN Clamp01(ua0) ELSE ua0
        ub0 == (d1343 ++ (d4321 ** ua)) // d4343
        ub == IF ~_u_in(B, ub0) THEN Clamp01(ub0) ELSE ub0
    IN  IF ~Vector3_nonzero(A.v) \/ ~Vector3_nonzero(B.v) THEN AssertionError
        ELSE IF IsZero(denom) THEN
            IF B.cls \in {"Ray3", "LineSegment3"} THEN
                _swap(_connect_point3_line3(B.p, A))
            ELSE _connect_point3_line3(A.p, B)
        ELSE LineSegment3(At3(A, ua), At3(B, ub))

_connect_line3_plane(L, P) ==
    LET d == Vector3_dot(P.n, L.v)
        u == (P.k -- Vector3_dot(P.n, L.p)) // d
    IN  IF IsZero(d) THEN _connect_point3_plane(L.p, P)
        ELSE IF ~_u_in(L, u) THEN _connect_point3_plane(At3(L, Clamp01(u)), P)
        ELSE None

_connect_sphere_line3(S, L) ==
    LET d == Vector3_magnitude_squared(L.v)
        u0 == ((((S.c.x -- L.p.x) ** L.v.x) ++ ((S.c.y -- L.p.y) ** L.v.y))
                 ++ ((S.c.z -- L.p.z) ** L.v.z)) // d
        u == IF ~_u_in(L, u0) THEN Clamp01(u0) ELSE u0
        point == At3(L, u)
        v == Vector3_mul(Vector3_normalize(Vector3_sub(point, S.c)), S.r)
    IN  IF IsZero(d) THEN AssertionError
        ELSE LineSegment3(Point3(S.c.x ++ v.x, S.c.y ++ v.y, S.c.z ++ v.z), point)

_connect_sphere_sphere(A, B) ==
    LET v0 == Vector3_sub(B.c, A.c)
        d == Vector3_magnitude(v0)
        s == Signs(A.r, B.r, d)
        v == Vector3_normalize(v0)
    IN  IF s[1] = 0 THEN UnboundLocalError
        ELSE LineSegment3(
                 Point3(A.c.x ++ ((Q(s[1]) ** v.x) ** A.r),
                        A.c.y ++ ((Q(s[1]) ** v.y) ** A.r),
                        A.c.z ++ ((Q(s[1]) ** v.z) ** A.r)),
                 Point3(B.c.x ++ ((Q(s[2]) ** v.x) ** B.r),
                        B.c.y ++ ((Q(s[2]) ** v.y) ** B.r),
                        B.c.z ++ ((Q(s[2]) ** v.z) ** B.r)))

\* c is a LineSegment3 (always true) unless the inner call raised
_connect_sphere_plane(S, P) ==
    LET c == _connect_point3_plane(S.c, P)
        p2 == Line3_p2(c)
        v == Vector3_mul(Vector3_normalize(Vector3_sub(p2, S.c)), S.r)
    IN  IF IsError(c) THEN c
        ELSE LineSegment3(Point3(S.c.x ++ v.x, S.c.y ++ v.y, S.c.z ++ v.z), p2)

\* Plane._get_point: an arbitrary point of the plane
Plane_get_point(P) ==
    IF ~IsZero(P.n.z) THEN Point3(Q(0), Q(0), P.k // P.n.z)
    ELSE IF ~IsZero(P.n.y) THEN Point3(Q(0), P.k // P.n.y, Q(0))
    ELSE IF ~IsZero(P.n.x) THEN Point3(P.k // P.n.x, Q(0), Q(0))
    ELSE ZeroDivisionError

_connect_plane_plane(A, B) ==
    IF Vector3_nonzero(Vector3_cross(A.n, B.n)) THEN None
    ELSE _connect_point3_plane(Plane_get_point(A), B)

_intersect_point3_sphere(P, S) ==
    Bool(RLe(Vector3_magnitude(Vector3_sub(P, S.c)), S.r))

\* no tangent branch: a zero discriminant gives a LineSegment3 of length 0
_intersect_line3_sphere(L, S) ==
    LET a == Vector3_magnitude_squared(L.v)
        b == Q(2) ** (((L.v.x ** (L.p.x -- S.c.x)) ++ (L.v.y ** (L.p.y -- S.c.y)))
                        ++ (L.v.z ** (L.p.z -- S.c.z)))
        c == ((Vector3_magnitude_squared(S.c) ++ Vector3_magnitude_squared(L.p))
                -- (Q(2) ** Vector3_dot(S.c, L.p))) -- (S.r ** S.r)
        det == (b ** b) -- ((Q(4) ** a) ** c)
        sq == Sqrt(det)
        r1 == (RNeg(b) ++ sq) // (Q(2) ** a)
        r2 == (RNeg(b) -- sq) // (Q(2) ** a)
        u1 == IF ~_u_in(L, r1) THEN Clamp01(r1) ELSE r1
        u2 == IF ~_u_in(L, r2) THEN Clamp01(r2) ELSE r2
    IN  IF RLt(det, Q(0)) THEN None
        ELSE IF IsZero(a) THEN ZeroDivisionError
        ELSE LineSegment3(At3(L, u1), At3(L, u2))

_intersect_line3_plane(L, P) ==
    LET d == Vector3_dot(P.n, L.v)
        u == (P.k -- Vector3_dot(P.n, L.p)) // d
    IN  IF IsZero(d) THEN None
        ELSE IF ~_u_in(L, u) THEN None
        ELSE At3(L, u)

\* the plane-plane intersection were c1, c2 computed as for unit normals
\* (n1_m = n2_m = 1 in the numerators)
_intersect_plane_plane_unit(A, B) ==
    LET n1_m == Vector3_magnitude_squared(A.n)
        n2_m == Vector3_magnitude_squared(B.n)
        n1d2 == Vector3_dot(A.n, B.n)
        det == (n1_m ** n2_m) -- (n1d2 ** n1d2)
        c1 == (A.k -- (B.k ** n1d2)) // det
        c2 == (B.k -- (A.k ** n1d2)) // det
    IN  IF IsZero(det) THEN None
        ELSE Line3(<<Point3((c1 ** A.n.x) ++ (c2 ** B.n.x),
                            (c1 ** A.n.y) ++ (c2 ** B.n.y),
                            (c1 ** A.n.z) ++ (c2 ** B.n.z)),
                     Vector3_cross(A.n, B.n)>>)

_intersect_plane_plane(A, B) ==
    LET n1_m == Vector3_magnitude_squared(A.n)
        n2_m == Vector3_magnitude_squared(B.n)
        n1d2 == Vector3_dot(A.n, B.n)
        det == (n1_m ** n2_m) -- (n1d2 ** n1d2)
        c1 == ((A.k ** n2_m) -- (B.k ** n1d2)) // det
        c2 == ((B.k ** n1_m) -- (A.k ** n1d2)) // det
    IN  IF IsZero(det) THEN None
        ELSE Line3(<<Point3((c1 ** A.n.x) ++ (c2 ** B.n.x),
                            (c1 ** A.n.y) ++ (c2 ** B.n.y),
                            (c1 ** A.n.z) ++ (c2 ** B.n.z)),
                     Vector3_cross(A.n, B.n)>>)

---------------------------------------------------------------------------
(* The dispatch protocol.                                                  *)

\* the method resolution order of each class (object left out)
MRO(cls) ==
    CASE cls = "Point2" -> <<"Point2", "Vector2", "Geometry">>
      [] cls = "Point3" -> <<"Point3", "Vector3", "Geometry">>
      [] cls = "Line2" -> <<"Line2", "Geometry">>
      [] cls = "Ray2" -> <<"Ray2", "Line2", "Geometry">>
      [] cls = "LineSegment2" -> <<"LineSegment2", "Line2", "Geometry">>
      [] cls = "Circle" -> <<"Circle", "Geometry">>
      [] cls = "Line3" -> <<"Line3">>
      [] cls = "Ray3" -> <<"Ray3", "Line3">>
      [] cls = "LineSegment3" -> <<"LineSegment3", "Line3">>
      [] cls = "Sphere" -> <<"Sphere">>
      [] cls = "Plane" -> <<"Plane">>

Keys == {"point2", "line2", "circle", "point3", "line3", "sphere", "plane"}

\* T.intersect(other) calls other._intersect_<Key(T)>(self), and T.connect
\* likewise; Ray and LineSegment inherit the entry points of Line
Key(cls) ==
    CASE cls = "Point2" -> "point2"
      [] cls \in {"Line2", "Ray2", "LineSegment2"} -> "line2"
      [] cls = "Circle" -> "circle"
      [] cls = "Point3" -> "point3"
      [] cls \in {"Line3", "Ray3", "LineSegment3"} -> "line3"
      [] cls = "Sphere" -> "sphere"
      [] cls = "Plane" -> "plane"

\* a handler _<op>_<key> of a class body: the pairwise algorithm it calls,
\* which of (self, other) it passes first, and what it does with the result:
\* "return" it, "swap" it (c = ...; if c: return c._swap()), or "ifc"
\* (c = ...; if c: return c)
Handler(o, key, alg, first, post) ==
    [name |-> <<o, key>>, alg |-> alg, first |-> first, post |-> post]

Geometry_dict ==
    {Handler("intersect", k, "_intersect_unimplemented", "self", "return") : k \in Keys}
    \cup {Handler("connect", k, "_connect_unimplemented", "self", "return") : k \in Keys}

Point2_dict ==
    {Handler("intersect", "circle", "_intersect_point2_circle", "self", "return"),
     Handler("connect", "point2", "LineSegment2", "other", "return"),
     Handler("connect", "line2", "_connect_point2_line2", "self", "swap"),
     Handler("connect", "circle", "_connect_point2_circle", "self", "swap")}

Point3_dict ==
    {Handler("intersect", "sphere", "_intersect_point3_sphere", "self", "return"),
     Handler("connect", "point3", "Point3._connect_point3", "other", "return"),
     Handler("connect", "line3", "_connect_point3_line3", "self", "swap"),
     Handler("connect", "sphere", "_connect_point3_sphere", "self", "swap"),
     Handler("connect", "plane", "_connect_point3_plane", "self", "swap")}

Line2_dict ==
    {Handler("intersect", "line2", "_intersect_line2_line2", "self", "return"),
     Handler("intersect", "circle", "_intersect_line2_circle", "self", "return"),
     Handler("connect", "point2", "_connect_point2_line2", "other", "return"),
     Handler("connect", "line2", "_connect_line2_line2", "other", "return"),
     Handler("connect", "circle", "_connect_circle_line2", "other", "return")}

Line3_dict ==
    {Handler("intersect", "sphere", "_intersect_line3_sphere", "self", "return"),
     Handler("intersect", "plane", "_intersect_line3_plane", "self", "return"),
     Handler("connect", "point3", "_connect_point3_line3", "other", "return"),
     Handler("connect", "line3", "_connect_line3_line3", "other", "return"),
     Handler("connect", "sphere", "_connect_sphere_line3", "other", "return"),
     Handler("connect", "plane", "_connect_line3_plane", "self", "ifc")}

\* a variant of the Circle class body that defines no _connect_line2
Circle_dict_without_connect_line2 ==
    {Handler("intersect", "point2", "_intersect_point2_circle", "other", "return"),
     Handler("intersect", "line2", "_intersect_line2_circle", "other", "return"),
     Handler("connect", "point2", "_connect_point2_circle", "other", "return"),
     Handler("connect", "circle", "_connect_circle_circle", "other", "return")}

Circle_dict ==
    {Handler("intersect", "point2", "_intersect_point2_circle", "other", "return"),
     Handler("intersect", "line2", "_intersect_line2_circle", "other", "return"),
     Handler("connect", "point2", "_connect_point2_circle", "other", "return"),
     Handler("connect", "line2", "_connect_circle_line2", "self", "swap"),
     Handler("connect", "circle", "_connect_circle_circle", "other", "return")}

Sphere_dict ==
    {Handler("intersect", "point3", "_intersect_point3_sphere", "other", "return"),
     Handler("intersect", "line3", "_intersect_line3_sphere", "other", "return"),
     Handler("connect", "point3", "_connect_point3_sphere", "other", "return"),
     Handler("connect", "line3", "_connect_sphere_line3", "self", "swap"),
     Handler("connect", "sphere", "_connect_sphere_sphere", "other", "return"),
     Handler("connect", "plane", "_connect_sphere_plane", "self", "ifc")}

Plane_dict ==
    {Handler("intersect", "line3", "_intersect_line3_plane", "other", "return"),
     Handler("intersect", "plane", "_intersect_plane_plane", "self", "return"),
     Handler("connect", "point3", "_connect_point3_plane", "other", "return"),
     Handler("connect", "line3", "_connect_line3_plane", "other", "return"),
     Handler("connect", "sphere", "_connect_sphere_plane", "other", "return"),
     Handler("connect", "plane", "_connect_plane_plane", "other", "return")}

\* the handlers each class body defines
ClassDict(c) ==
    CASE c = "Geometry" -> Geometry_dict
      [] c = "Point2" -> Point2_dict
      [] c = "Point3" -> Point3_dict
      [] c = "Line2" -> Line2_dict
      [] c = "Line3" -> Line3_dict
      [] c = "Circle" -> Circle_dict
      [] c = "Sphere" -> Sphere_dict
      [] c = "Plane" -> Plane_dict
      [] OTHER -> {}

\* attribute lookup along the MRO; "missing" when no class defines the name
Missing(name) == [name |-> name, alg |-> "missing", first |-> "self", post |-> "return"]

RECURSIVE LookupIn(_, _)
LookupIn(mro, name) ==
    IF mro = <<>> THEN Missing(name)
    ELSE LET hit == {h \in ClassDict(Head(mro)) : h.name = name}
         IN  IF hit # {} THEN CHOOSE h \in hit : TRUE
             ELSE LookupIn(Tail(mro), name)

Lookup(cls, name) == LookupIn(MRO(cls), name)

\* x.<o>(y): the handler found on y for x's key, with self = y, other = x
Resolve(o, x, y) ==
    LET h == Lookup(y.cls, <<o, Key(x.cls)>>)
    IN  [alg |-> h.alg, post |-> h.post, self |-> y, other |-> x,
         a |-> IF h.first = "self" THEN y ELSE x,
         b |-> IF h.first = "self" THEN x ELSE y]

Implemented(r) ==
    r.alg \notin {"missing", "_intersect_unimplemented", "_connect_unimplemented"}

\* Point2._connect_point2: LineSegment2(other, self)
Point2_connect_point2(other, self) == LineSegment2(other, self)

\* Point3._connect_point3: None for two equal points
Point3_connect_point3(other, self) ==
    IF ~Vector3_eq(self, other) THEN LineSegment3(other, self) ELSE None

Apply(alg, a, b) ==
    CASE alg = "_intersect_point2_circle" -> _intersect_point2_circle(a, b)
      [] alg = "_intersect_line2_line2" -> _intersect_line2_line2(a, b)
      [] alg = "_intersect_line2_circle" -> _intersect_line2_circle(a, b)
      [] alg = "LineSegment2" -> Point2_connect_point2(a, b)
      [] alg = "_connect_point2_line2" -> _connect_point2_line2(a, b)
      [] alg = "_connect_point2_circle" -> _connect_point2_circle(a, b)
      [] alg = "_connect_line2_line2" -> _connect_line2_line2(a, b)
      [] alg = "_connect_circle_line2" -> _connect_circle_line2(a, b)
      [] alg = "_connect_circle_circle" -> _connect_circle_circle(a, b)
      [] alg = "_intersect_point3_sphere" -> _intersect_point3_sphere(a, b)
      [] alg = "_intersect_line3_sphere" -> _intersect_line3_sphere(a, b)
      [] alg = "_intersect_line3_plane" -> _intersect_line3_plane(a, b)
      [] alg = "_intersect_plane_plane" -> _intersect_plane_plane(a, b)
      [] alg = "Point3._connect_point3" -> Point3_connect_point3(a, b)
      [] alg = "_connect_point3_line3" -> _connect_point3_line3(a, b)
      [] alg = "_connect_point3_sphere" -> _connect_point3_sphere(a, b)
      [] alg = "_connect_point3_plane" -> _connect_point3_plane(a, b)
      [] alg = "_connect_line3_line3" -> _connect_line3_line3(a, b)
      [] alg = "_connect_line3_plane" -> _connect_line3_plane(a, b)
      [] alg = "_connect_sphere_line3" -> _connect_sphere_line3(a, b)
      [] alg = "_connect_sphere_sphere" -> _connect_sphere_sphere(a, b)
      [] alg = "_connect_sphere_plane" -> _connect_sphere_plane(a, b)
      [] alg = "_connect_plane_plane" -> _connect_plane_plane(a, b)

\* Geometry._intersect_unimplemented: str.format on a template that has only
\* %s placeholders leaves it as it is, so the message names no class
_intersect_unimplemented(self, other) ==
    AttributeError("Cannot intersect %s and %s", {})

\* Geometry._connect_unimplemented: both classes are formatted in
_connect_unimplemented(self, other) ==
    AttributeError("Cannot connect {self.__class__} {other.__class__} %s",
                   {self.cls, other.cls})

\* a handler no class of the MRO defines: Python's own AttributeError, which
\* names the class looked in and the attribute
NoAttribute(self, name) ==
    Error("AttributeError", "object has no attribute", {self.cls})

\* what a handler does with the value c its algorithm returned: the Point
\* handlers return it as it is, the others test it (if c: ...) and swap it
\* when the receiver is the algorithm's second argument
Handled(post, c) ==
    IF post = "return" \/ IsError(c) THEN c
    ELSE IF c.cls = "None" THEN None
    ELSE IF post = "swap" THEN _swap(c)
    ELSE c

\* the result of the resolved handler
Run(r) ==
    IF r.alg = "missing" THEN NoAttribute(r.self, r.alg)
    ELSE IF r.alg = "_intersect_unimplemented" THEN _intersect_unimplemented(r.self, r.other)
    ELSE IF r.alg = "_connect_unimplemented" THEN _connect_unimplemented(r.self, r.other)
    ELSE Handled(r.post, Apply(r.alg, r.a, r.b))

HasDistance(cls) == \E i \in DOMAIN MRO(cls) : MRO(cls)[i] = "Geometry"

\* Geometry.distance, from c = self.connect(other) on
Geometry_distance(c) ==
    IF IsError(c) THEN c
    ELSE IF c.cls # "None" THEN Float(length(c))
    ELSE Float(Q(0))

\* the value x.<o>(y) returns, c being what the handler it resolves to
\* returned; Line3, Sphere and Plane do not derive from Geometry and have
\* no distance
Returned(o, x, c) ==
    IF o # "distance" THEN c
    ELSE IF ~HasDistance(x.cls) THEN NoAttribute(x, "distance")
    ELSE Geometry_distance(c)

\* what x.<o>(y) resolves to: distance calls self.connect(other)
HowOf(o, x, y) == Resolve(IF o = "distance" THEN "connect" ELSE o, x, y)

\* x.intersect(y), x.connect(y), x.distance(y)
Call(o, x, y) == Returned(o, x, Run(HowOf(o, x, y)))

---------------------------------------------------------------------------
(* Operands.  Every primitive is built by its constructor.                 *)

Coords == 0 .. MaxCoord

Radii == 0 .. MaxRadius

P2(i, j) == Point2(Q(i), Q(j))

V2(i, j) == Vector2(Q(i), Q(j))

P3(i, j, k) == Point3(Q(i), Q(j), Q(k))

V3(i, j, k) == Vector3(Q(i), Q(j), Q(k))

Pts2 == {P2(i, j) : i \in Coords, j \in Coords}

Pts3 == {P3(i, j, k) : i \in Coords, j \in Coords, k \in Coords}

Dirs2 == {V2(1, 0), V2(0, 1), V2(1, 1), V2(-1, 1), V2(2, 0)}

Dirs3 == {V3(1, 0, 0), V3(0, 1, 0), V3(0, 0, 1), V3(1, 1, 0), V3(1, -1, 1)}

Normals == {V3(0, 0, 1), V3(1, 0, 0), V3(1, 1, 0), V3(0, 2, 0)}

LineClasses2 == {"Line2", "Ray2", "LineSegment2"}

LineClasses3 == {"Line3", "Ray3", "LineSegment3"}

F(i) == Float(Q(i))

\* a constructor call: the class named and the arguments given
New(cls, args) ==
    CASE cls \in LineClasses2 -> Line2_init(cls, args)
      [] cls \in LineClasses3 -> Line3_init(cls, args)
      [] cls = "Circle" -> Circle(args[1], args[2].f)
      [] cls = "Sphere" -> Sphere(args[1], args[2].f)
      [] cls = "Plane" -> Plane(args)
      [] cls = "Point2" -> Point2(args[1].f, args[2].f)
      [] cls = "Point3" -> Point3(args[1].f, args[2].f, args[3].f)

\* the constructor calls of the primitives the examples of the specification
\* use, and of a few more of every class
AnchorArgs2 ==
    {<<"Point2", <<F(0), F(0)>>>>, <<"Point2", <<F(20), F(5)>>>>,
     <<"Point2", <<F(1), F(2)>>>>,
     <<"Line2", <<P2(-5, 0), P2(5, 0)>>>>, <<"Line2", <<P2(-5, 3), P2(5, 3)>>>>,
     <<"Line2", <<P2(0, 0), V2(1, 1)>>>>,
     <<"Ray2", <<P2(1, 1), V2(1, 0)>>>>, <<"Ray2", <<P2(2, 0), V2(-1, 1)>>>>,
     <<"LineSegment2", <<P2(0, 0), P2(10, 0)>>>>,
     <<"LineSegment2", <<P2(0, 1), P2(2, 1)>>>>,
     <<"LineSegment2", <<P2(1, 0), P2(1, 2)>>>>,
     <<"Circle", <<P2(0, 0), F(3)>>>>, <<"Circle", <<P2(0, 5), F(1)>>>>,
     <<"Circle", <<P2(1, 1), F(1)>>>>, <<"Circle", <<P2(1, 1), F(2)>>>>,
     <<"Circle", <<P2(1, 1), F(0)>>>>}

AnchorArgs3 ==
    {<<"Point3", <<F(0), F(0), F(0)>>>>, <<"Point3", <<F(1), F(2), F(2)>>>>,
     <<"Line3", <<P3(0, 0, 0), V3(1, 0, 0)>>>>,
     <<"Line3", <<P3(0, 1, 1), V3(0, 1, 1)>>>>,
     <<"Ray3", <<P3(1, 1, 0), V3(0, 0, 1)>>>>,
     <<"Ray3", <<P3(0, 0, 2), V3(1, 1, -1)>>>>,
     <<"LineSegment3", <<P3(0, 0, 1), P3(2, 0, 1)>>>>,
     <<"LineSegment3", <<P3(1, 0, 0), P3(1, 2, 2)>>>>,
     <<"Sphere", <<P3(0, 0, 0), F(1)>>>>, <<"Sphere", <<P3(1, 1, 1), F(2)>>>>,
     <<"Sphere", <<P3(1, 1, 1), F(1)>>>>, <<"Sphere", <<P3(1, 1, 1), F(0)>>>>,
     <<"Plane", <<V3(0, 0, 1), F(1)>>>>, <<"Plane", <<P3(1, 0, 0), V3(1, 1, 0)>>>>,
     <<"Plane", <<P3(0, 0, 0), P3(1, 0, 0), P3(0, 1, 0)>>>>,
     <<"Plane", <<V3(0, 2, 0), F(2)>>>>}

\* the constructor calls of the primitives within the bounds
PoolArgs2 ==
    {<<"Point2", <<F(i), F(j)>>>> : i \in Coords, j \in Coords}
    \cup {<<c, <<p, d>>>> : c \in LineClasses2, p \in Pts2, d \in Dirs2}
    \cup {<<"Circle", <<p, F(r)>>>> : p \in Pts2, r \in Radii}
    \cup AnchorArgs2

PoolArgs3 ==
    {<<"Point3", <<F(i), F(j), F(k)>>>> : i \in Coords, j \in Coords, k \in Coords}
    \cup {<<c, <<p, d>>>> : c \in LineClasses3, p \in Pts3, d \in Dirs3}
    \cup {<<"Sphere", <<p, F(r)>>>> : p \in Pts3, r \in Radii}
    \cup {<<"Plane", <<p, n>>>> : p \in Pts3, n \in Normals}
    \cup AnchorArgs3

\* the operand pairs drawn: a primitive of the pool against an anchor of the
\* same dimension, and every two anchors (of the same or different dimension)
PairArgs ==
    (PoolArgs2 \X AnchorArgs2) \cup (PoolArgs3 \X AnchorArgs3)
    \cup ((AnchorArgs2 \cup AnchorArgs3) \X (AnchorArgs2 \cup AnchorArgs3))

Pairs == {<<New(t[1][1], t[1][2]), New(t[2][1], t[2][2])>> : t \in PairArgs}

\* the degenerate and the remaining forms of the line and plane constructors:
\* two points (equal ones too), a point and a zero vector, a point, a vector
\* and a length, a line to copy, three points (colinear ones too)
Zero2 == V2(0, 0)

Zero3 == V3(0, 0, 0)

Corner2 == {P2(0, 0), P2(1, 0), P2(1, 2)}

Corner3 == {P3(0, 0, 0), P3(1, 0, 0), P3(0, 1, 2)}

FormArgs2 ==
    {<<c, <<p, q>>>> : c \in LineClasses2, p \in Corner2, q \in Corner2}
    \cup {<<c, <<p, Zero2>>>> : c \in LineClasses2, p \in Corner2}
    \cup {<<c, <<p, d, F(l)>>>> : c \in LineClasses2, p \in Corner2,
                                  d \in Dirs2 \cup {Zero2}, l \in Radii}
    \cup {<<c, <<New(k, <<p, d>>)>>>> : c \in LineClasses2, k \in LineClasses2,
                                        p \in Corner2, d \in Dirs2}

FormArgs3 ==
    {<<c, <<p, q>>>> : c \in LineClasses3, p \in Corner3, q \in Corner3}
    \cup {<<c, <<p, Zero3>>>> : c \in LineClasses3, p \in Corner3}
    \cup {<<c, <<p, d, F(l)>>>> : c \in LineClasses3, p \in Corner3,
                                  d \in Dirs3 \cup {Zero3}, l \in Radii}
    \cup {<<c, <<New(k, <<p, d>>)>>>> : c \in LineClasses3, k \in LineClasses3,
                                        p \in Corner3, d \in Dirs3 \cup {Zero3}}
    \cup {<<"Plane", <<p, q, r>>>> : p \in Corner3, q \in Corner3,
                                     r \in Corner3 \cup {P3(2, 0, 0), P3(0, 2, 0)}}
    \cup {<<"Plane", <<p, Zero3>>>> : p \in Corner3}
    \cup {<<"Plane", <<n, F(k)>>>> : n \in Normals \cup {Zero3}, k \in Radii}

CtorArgs == PoolArgs2 \cup PoolArgs3 \cup FormArgs2 \cup FormArgs3

\* the numbers held by a value
Nums(v) ==
    CASE v.cls \in {"Point2", "Vector2"} -> {v.x, v.y}
      [] v.cls \in {"Point3", "Vector3"} -> {v.x, v.y, v.z}
      [] v.cls \in LineClasses2 -> {v.p.x, v.p.y, v.v.x, v.v.y}
      [] v.cls \in LineClasses3 -> {v.p.x, v.p.y, v.p.z, v.v.x, v.v.y, v.v.z}
      [] v.cls = "float" -> {v.f}
      [] OTHER -> {}

NoIrr(v) == \A q \in Nums(v) : ~IsIrr(q)

\* the distance between the centres of two round operands is rational
RoundOK(a, b) ==
    IF a.cls \in {"Point2", "Circle"} /\ b.cls \in {"Point2", "Circle"} THEN
        ~IsIrr(Vector2_magnitude(Vector2_sub(IF a.cls = "Circle" THEN a.c ELSE a,
                                             IF b.cls = "Circle" THEN b.c ELSE b)))
    ELSE IF a.cls \in {"Point3", "Sphere"} /\ b.cls \in {"Point3", "Sphere"} THEN
        ~IsIrr(Vector3_magnitude(Vector3_sub(IF a.cls = "Sphere" THEN a.c ELSE a,
                                             IF b.cls = "Sphere" THEN b.c ELSE b)))
    ELSE TRUE

---------------------------------------------------------------------------
(* The state machine: a client draws two primitives and calls intersect,   *)
(* connect or distance on them, then the same operation with the operands  *)
(* exchanged; or it calls a constructor.  A call is drawn when its result  *)
(* is rational (NoIrr, RoundOK).                                           *)

Unset == [cls |-> "unset"]

Init ==
    /\ pc = "idle"
    /\ op = "none"
    /\ lhs = Unset
    /\ rhs = Unset
    /\ given = <<>>
    /\ how = Unset
    /\ res = Unset
    /\ howrev = Unset
    /\ rev = Unset

CallOp(o, a, b) ==
    /\ pc = "idle"
    /\ RoundOK(a, b)
    /\ pc' = "called"
    /\ op' = o
    /\ lhs' = a
    /\ rhs' = b
    /\ how' = HowOf(o, a, b)
    /\ res' = Call(o, a, b)
    /\ NoIrr(res')
    /\ UNCHANGED <<given, howrev, rev>>

\* the pairs a client may draw in the current state
Drawn == IF pc = "idle" THEN Pairs ELSE {}

Intersect == \E pr \in Drawn : CallOp("intersect", pr[1], pr[2])

Connect == \E pr \in Drawn : CallOp("connect", pr[1], pr[2])

Distance == \E pr \in Drawn : CallOp("distance", pr[1], pr[2])

\* the same operation with the operands exchanged
Reverse ==
    /\ pc = "called"
    /\ pc' = "done"
    /\ howrev' = HowOf(op, rhs, lhs)
    /\ rev' = Call(op, rhs, lhs)
    /\ NoIrr(rev')
    /\ UNCHANGED <<op, lhs, rhs, given, how, res>>

\* a constructor call on its own
Built == IF pc = "idle" THEN CtorArgs ELSE {}

Construct ==
    \E t \in Built :
        /\ pc = "idle"
        /\ pc' = "made"
        /\ op' = t[1]
        /\ given' = t[2]
        /\ res' = New(t[1], t[2])
        /\ NoIrr(res')
        /\ UNCHANGED <<lhs, rhs, how, howrev, rev>>

Reset ==
    /\ pc \in {"called", "done", "made", "returned", "result_mutated",
             "operand_mutated"}
    /\ pc' = "idle"
    /\ op' = "none"
    /\ lhs' = Unset
    /\ rhs' = Unset
    /\ given' = <<>>
    /\ how' = Unset
    /\ res' = Unset
    /\ howrev' = Unset
    /\ rev' = Unset

Next == Intersect \/ Connect \/ Distance \/ Reverse \/ Construct \/ Reset

Spec == Init /\ [][Next]_vars

---------------------------------------------------------------------------
(* Vocabulary of the properties.                                           *)

Called == pc \in {"called", "done"}

IsSegment(c) == c.cls \in {"LineSegment2", "LineSegment3"}

IsPoint(c) == c.cls \in {"Point2", "Point3"}

IsLine(c) == IsLine2(c) \/ IsLine3(c)

IsRound(c) == c.cls \in {"Circle", "Sphere"}

Flat(c) == c.cls \in {"Point2", "Circle"} \/ IsLine2(c)

SameDim(a, b) == Flat(a) <=> Flat(b)

\* the coordinates of a point or vector, whatever its class
Coord(v) == IF Is2(v) THEN <<v.x, v.y>> ELSE <<v.x, v.y, v.z>>

CDot(s, t) ==
    IF Len(s) = 2 THEN (s[1] ** t[1]) ++ (s[2] ** t[2])
    ELSE ((s[1] ** t[1]) ++ (s[2] ** t[2])) ++ (s[3] ** t[3])

CSub(s, t) ==
    IF Len(s) = 2 THEN <<s[1] -- t[1], s[2] -- t[2]>>
    ELSE <<s[1] -- t[1], s[2] -- t[2], s[3] -- t[3]>>

CNeg(s) ==
    IF Len(s) = 2 THEN <<RNeg(s[1]), RNeg(s[2])>>
    ELSE <<RNeg(s[1]), RNeg(s[2]), RNeg(s[3])>>

CCross(s, t) ==
    <<(s[2] ** t[3]) -- (s[3] ** t[2]),
      (s[3] ** t[1]) -- (s[1] ** t[3]),
      (s[1] ** t[2]) -- (s[2] ** t[1])>>

CZero(s) == \A i \in DOMAIN s : IsZero(s[i])

\* the coordinates of p + u * v on the line L
CAt(L, u) ==
    IF IsLine2(L) THEN <<L.p.x ++ (u ** L.v.x), L.p.y ++ (u ** L.v.y)>>
    ELSE <<L.p.x ++ (u ** L.v.x), L.p.y ++ (u ** L.v.y), L.p.z ++ (u ** L.v.z)>>

\* the two endpoints of a segment
EndA(c) == Coord(c.p)

EndB(c) == CAt(c, Q(1))

Ends(c) == {EndA(c), EndB(c)}

\* the parameter of the orthogonal projection of the point P on the line L
ProjU(P, L) == CDot(CSub(Coord(P), Coord(L.p)), Coord(L.v)) // CDot(Coord(L.v), Coord(L.v))

\* the parameter of L nearest to u that belongs to L
NearestU(L, u) ==
    IF _u_in(L, u) THEN u
    ELSE IF L.cls \in {"Ray2", "Ray3"} THEN Q(0)
    ELSE IF RLt(u, Q(0)) THEN Q(0)
    ELSE Q(1)

\* the point of L nearest to P
Foot(P, L) == CAt(L, NearestU(L, ProjU(P, L)))

\* a * u^2 + b * u + c = 0, the points of the line L on the circle or sphere S
QuadA(L) == CDot(Coord(L.v), Coord(L.v))

QuadB(L, S) == Q(2) ** CDot(Coord(L.v), CSub(Coord(L.p), Coord(S.c)))

QuadC(L, S) ==
    CDot(CSub(Coord(L.p), Coord(S.c)), CSub(Coord(L.p), Coord(S.c))) -- (S.r ** S.r)

Discriminant(L, S) ==
    (QuadB(L, S) ** QuadB(L, S)) -- ((Q(4) ** QuadA(L)) ** QuadC(L, S))

RootPlus(L, S) ==
    (RNeg(QuadB(L, S)) ++ Sqrt(Discriminant(L, S))) // (Q(2) ** QuadA(L))

RootMinus(L, S) ==
    (RNeg(QuadB(L, S)) -- Sqrt(Discriminant(L, S))) // (Q(2) ** QuadA(L))

\* the roots exist and are rational
Solvable(L, S) ==
    /\ RLe(Q(0), Discriminant(L, S))
    /\ ~IsIrr(Sqrt(Discriminant(L, S)))

\* the parameter at which the line L meets the plane P (n.v is not zero)
PlaneU(L, P) ==
    (P.k -- CDot(Coord(P.n), Coord(L.p))) // CDot(Coord(P.n), Coord(L.v))

\* the parameters at which two 2D lines meet (they are not parallel)
Det2(A, B) == (B.v.y ** A.v.x) -- (B.v.x ** A.v.y)

MeetU(A, B) ==
    ((B.v.x ** (A.p.y -- B.p.y)) -- (B.v.y ** (A.p.x -- B.p.x))) // Det2(A, B)

\* the connect and intersect algorithms of a line-family operand
CallsLineRound(h) == h.alg \in {"_intersect_line2_circle", "_intersect_line3_sphere"}

---------------------------------------------------------------------------
(* The properties.                                                         *)

\* C1: for every ordered pair of primitives for which connect is
\* implemented, A.connect(B) and B.connect(A) are the same segment with its
\* endpoints swapped: the first endpoint of one is the second of the other.
C1_ConnectReversed ==
    (pc = "done" /\ op = "connect" /\ Implemented(how)
       /\ IsSegment(res) /\ IsSegment(rev))
    => (EndA(res) = EndB(rev) /\ EndB(res) = EndA(rev))

\* C1, the failing case: Plane.connect(Line3) and Line3.connect(Plane) return
\* the very same segment of non-zero length, in the same direction
C1_SameSegmentBothWays ==
    /\ pc = "done" /\ op = "connect"
    /\ lhs.cls = "Plane" /\ IsLine3(rhs)
    /\ IsSegment(res) /\ res = rev
    /\ EndA(res) # EndB(res)

\* two intersect results that describe the same point set: the same truth
\* value, the same point, the same chord endpoints up to order, the same
\* line up to the sign of its direction
SamePoints(c, d) ==
    /\ c.cls = d.cls
    /\ CASE c.cls = "None" -> TRUE
         [] c.cls = "bool" -> c.b = d.b
         [] IsPoint(c) -> Coord(c) = Coord(d)
         [] IsSegment(c) -> Ends(c) = Ends(d)
         [] c.cls = "Line3" ->
                /\ EndA(c) = EndA(d)
                /\ Coord(c.v) = Coord(d.v) \/ Coord(c.v) = CNeg(Coord(d.v))
         [] OTHER -> FALSE

C4_UnsupportedNamesBoth ==
    (Called /\ op \in {"intersect", "connect"} /\ ~Implemented(how))
    => (IsError(res) /\ res.exc = "AttributeError"
          /\ res.names = {lhs.cls, rhs.cls})

\* C4, the failing case: Point2.intersect(Line2) raises an error whose
\* message names no class
C4_IntersectNamesNeither ==
    /\ Called /\ op = "intersect"
    /\ lhs.cls = "Point2" /\ rhs.cls = "Line2"
    /\ how.alg = "_intersect_unimplemented"
    /\ IsError(res) /\ res.names = {}

\* C5: every primitive type exposes distance(other); for every supported pair
\* it is the length of connect(other), and 0 when connect(other) reports no
\* relation.
C5_DistanceIsConnectLength ==
    (Called /\ op = "distance" /\ Implemented(how)
       /\ ~IsError(Call("connect", lhs, rhs)))
    => /\ res.cls = "float"
       /\ res.f = IF IsSegment(Call("connect", lhs, rhs))
                  THEN length(Call("connect", lhs, rhs)) ELSE Q(0)

\* C5, the failing case: a Sphere has no distance at all, although connect
\* is implemented for the pair
C5_SphereHasNoDistance ==
    /\ Called /\ op = "distance"
    /\ lhs.cls = "Sphere" /\ Implemented(how)
    /\ IsSegment(Call("connect", lhs, rhs))
    /\ IsError(res) /\ res.msg = "object has no attribute"

\* C5, what holds: on the classes that derive from Geometry (the 2D ones and
\* Point3), distance is the length of connect, and 0 when connect reports no
\* relation
C5_GeometryDistance ==
    (Called /\ op = "distance" /\ HasDistance(lhs.cls) /\ Implemented(how)
       /\ ~IsError(Call("connect", lhs, rhs)))
    => /\ res.cls = "float"
       /\ res.f = IF IsSegment(Call("connect", lhs, rhs))
                  THEN length(Call("connect", lhs, rhs)) ELSE Q(0)

\* C6: for a point P and a line-family primitive L = p + u*v, P.connect(L)
\* is the segment from P to p + u'*v, u' being the projection parameter u
\* when L.u_in(u) holds and otherwise the nearest valid boundary: 0 or 1 for
\* a LineSegment, 0 for a Ray (never 1).
C6_PointLineConnect ==
    (Called /\ op = "connect" /\ IsPoint(lhs) /\ IsLine(rhs) /\ SameDim(lhs, rhs))
    => (IsSegment(res) /\ EndA(res) = Coord(lhs) /\ EndB(res) = Foot(lhs, rhs))

\* C6, the failing case: a 2D point that lies on the line; the result would
\* be a zero-length segment, and constructing it raises
C6_PointOnLine2Raises ==
    /\ Called /\ op = "connect"
    /\ lhs.cls = "Point2" /\ IsLine2(rhs)
    /\ Coord(lhs) = Foot(lhs, rhs)
    /\ IsError(res) /\ res.msg = "Line has zero-length vector"

\* C6, what holds: in 3D, and in 2D for a point that is off the line, connect
\* clamps as stated; L.connect(P) is the same segment from the line's end
C6_ClampedOffLine ==
    (Called /\ op = "connect" /\ SameDim(lhs, rhs)) =>
        /\ (IsPoint(lhs) /\ IsLine(rhs)
              /\ (lhs.cls = "Point3" \/ Coord(lhs) # Foot(lhs, rhs)))
           => (IsSegment(res) /\ EndA(res) = Coord(lhs) /\ EndB(res) = Foot(lhs, rhs))
        /\ (IsLine(lhs) /\ IsPoint(rhs)
              /\ (rhs.cls = "Point3" \/ Coord(rhs) # Foot(rhs, lhs)))
           => (IsSegment(res) /\ EndA(res) = Foot(rhs, lhs) /\ EndB(res) = Coord(rhs))

\* the solution parameters of an intersect algorithm all fail the u_in of
\* its Ray or LineSegment operand
OutOfRange(h) ==
    CASE h.alg = "_intersect_line2_line2" ->
             /\ ~IsZero(Det2(h.a, h.b))
             /\ ~_u_in(h.a, MeetU(h.a, h.b)) \/ ~_u_in(h.b, MeetU(h.b, h.a))
      [] h.alg = "_intersect_line3_plane" ->
             /\ ~IsZero(CDot(Coord(h.b.n), Coord(h.a.v)))
             /\ ~_u_in(h.a, PlaneU(h.a, h.b))
      [] CallsLineRound(h) ->
             /\ Solvable(h.a, h.b)
             /\ ~_u_in(h.a, RootPlus(h.a, h.b))
             /\ ~_u_in(h.a, RootMinus(h.a, h.b))
      [] OTHER -> FALSE

\* C7: in every intersect algorithm that has a Ray or LineSegment operand,
\* when the solution parameters fail that operand's u_in, intersect returns
\* no relation; it never builds a result from a clamped parameter.
C7_IntersectNeverClamps ==
    (Called /\ op = "intersect" /\ Implemented(how) /\ OutOfRange(how))
    => res.cls = "None"

\* C7, the failing case: a LineSegment2 whose line cuts the circle outside
\* the segment, and intersect returns a result built from clamped parameters
C7_ClampedChord ==
    /\ Called /\ op = "intersect"
    /\ lhs.cls = "LineSegment2" /\ rhs.cls = "Circle"
    /\ OutOfRange(how)
    /\ res.cls \in {"Point2", "LineSegment2"}

\* C7, what holds: line against line and line against plane return no
\* relation for a parameter out of range
C7_LinearNeverClamps ==
    (Called /\ op = "intersect" /\ Implemented(how) /\ ~CallsLineRound(how)
       /\ OutOfRange(how))
    => res.cls = "None"

\* the kind of result the discriminant calls for, on the unbounded line L
ByDiscriminant(L, S, c) ==
    IF RLt(Discriminant(L, S), Q(0)) THEN c.cls = "None"
    ELSE IF IsZero(Discriminant(L, S)) THEN
        IsPoint(c) /\ Coord(c) = CAt(L, RootPlus(L, S))
    ELSE
        IsSegment(c) /\ Ends(c) = {CAt(L, RootPlus(L, S)), CAt(L, RootMinus(L, S))}

\* C8: an unbounded Line against a Circle or a Sphere: a negative
\* discriminant gives no relation, a zero one (tangency) a single Point, a
\* positive one the segment between the two root points.
C8_DiscriminantDecides ==
    (Called /\ op = "intersect" /\ CallsLineRound(how)
       /\ how.a.cls \in {"Line2", "Line3"}
       /\ (Solvable(how.a, how.b) \/ RLt(Discriminant(how.a, how.b), Q(0))))
    => ByDiscriminant(how.a, how.b, res)

\* C8, the failing case: a Line3 tangent to a Sphere gives a LineSegment3 of
\* zero length, not a Point3
C8_TangentSegment3 ==
    /\ Called /\ op = "intersect"
    /\ lhs.cls = "Line3" /\ rhs.cls = "Sphere"
    /\ IsZero(Discriminant(lhs, rhs))
    /\ res.cls = "LineSegment3" /\ EndA(res) = EndB(res)

\* C8, what holds: the 2D algorithm decides by the discriminant as stated
C8_Line2Circle ==
    (Called /\ op = "intersect" /\ how.alg = "_intersect_line2_circle"
       /\ how.a.cls = "Line2"
       /\ (Solvable(how.a, how.b) \/ RLt(Discriminant(how.a, how.b), Q(0))))
    => ByDiscriminant(how.a, how.b, res)

\* the tangent and the chord of the specification's examples
C8_Examples ==
    /\ Called /\ op = "intersect" /\ lhs.cls = "Line2" /\ rhs.cls = "Circle"
    /\ rhs.c = P2(0, 0) /\ rhs.r = Q(3)
    /\ \/ lhs.p.y = Q(3) /\ res = P2(0, 3)
       \/ lhs.p.y = Q(0) /\ IsSegment(res) /\ Ends(res) = {<<Q(-3), Q(0)>>, <<Q(3), Q(0)>>}

\* the pairs that already touch or cross: two equal points, a point on a
\* circle, sphere or line, a line crossing a plane within its range, two
\* planes that intersect
OnRound(P, S) ==
    CDot(CSub(Coord(P), Coord(S.c)), CSub(Coord(P), Coord(S.c))) = S.r ** S.r

Crosses(L, P) ==
    /\ ~IsZero(CDot(Coord(P.n), Coord(L.v)))
    /\ _u_in(L, PlaneU(L, P))

Touching(x, y) ==
    /\ SameDim(x, y)
    /\ CASE IsPoint(x) /\ IsPoint(y) -> Coord(x) = Coord(y)
         [] IsPoint(x) /\ IsRound(y) -> OnRound(x, y)
         [] IsRound(x) /\ IsPoint(y) -> OnRound(y, x)
         [] IsPoint(x) /\ IsLine(y) -> Coord(x) = Foot(x, y)
         [] IsLine(x) /\ IsPoint(y) -> Coord(y) = Foot(y, x)
         [] IsLine3(x) /\ y.cls = "Plane" -> Crosses(x, y)
         [] x.cls = "Plane" /\ IsLine3(y) -> Crosses(y, x)
         [] x.cls = "Plane" /\ y.cls = "Plane" ->
                ~CZero(CCross(Coord(x.n), Coord(y.n)))
         [] OTHER -> FALSE

\* C9: whenever the two primitives already touch or cross, connect returns a
\* zero-length segment, not no relation and not an error.
C9_TouchingGivesZeroLength ==
    (Called /\ op = "connect" /\ Touching(lhs, rhs))
    => (IsSegment(res) /\ EndA(res) = EndB(res))

\* C9, the failing case: two equal Point3 connect to no relation
C9_EqualPointsNoRelation ==
    /\ Called /\ op = "connect"
    /\ lhs.cls = "Point3" /\ rhs.cls = "Point3" /\ Coord(lhs) = Coord(rhs)
    /\ res.cls = "None"

\* C10: constructing a plain Line2 or Line3, by any constructor form, fails
\* with the invalid-geometry error whenever the resulting direction is zero:
\* a construction either raises that error or yields a non-zero direction.
C10_ZeroLineRejected ==
    (pc = "made" /\ op \in {"Line2", "Line3"})
    => IF IsError(res) THEN res.msg = "Line has zero-length vector"
       ELSE ~CZero(Coord(res.v))

\* C10, the failing case: Line3 of two equal points is constructed, with a
\* zero direction
C10_ZeroLine3 ==
    /\ pc = "made" /\ op = "Line3"
    /\ Len(given) = 2 /\ given[1] = given[2]
    /\ res.cls = "Line3" /\ CZero(Coord(res.v))

\* C10, what holds: no Line2 with a zero direction is ever produced
C10_NoZeroLine2 ==
    (pc = "made" /\ op = "Line2" /\ ~IsError(res)) => ~CZero(Coord(res.v))

\* the arguments of a line constructor make a zero direction: two equal
\* points, a zero vector, a length of zero, a copy of a line that has one
ZeroGiven(args) ==
    CASE Len(args) = 1 -> CZero(Coord(args[1].v))
      [] Len(args) = 2 ->
             IF IsPoint(args[2]) THEN Coord(args[1]) = Coord(args[2])
             ELSE CZero(Coord(args[2]))
      [] Len(args) = 3 -> ~CZero(Coord(args[2])) /\ IsZero(args[3].f)

\* C11: constructing a Ray or a LineSegment (2D or 3D) whose direction is
\* zero-length succeeds and yields the degenerate primitive.
C11_DegenerateRayOrSegment ==
    (pc = "made" /\ op \in {"Ray2", "LineSegment2", "Ray3", "LineSegment3"}
       /\ ZeroGiven(given))
    => (res.cls = op /\ CZero(Coord(res.v)))

\* C11, the failing case: LineSegment2 of two equal points raises the error
\* of the plain Line
C11_Segment2Rejected ==
    /\ pc = "made" /\ op = "LineSegment2"
    /\ Len(given) = 2 /\ given[1] = given[2]
    /\ IsError(res) /\ res.msg = "Line has zero-length vector"

\* C11, what holds: in 3D a Ray or a LineSegment of zero direction is built
C11_Degenerate3D ==
    (pc = "made" /\ op \in {"Ray3", "LineSegment3"} /\ ZeroGiven(given))
    => (res.cls = op /\ CZero(Coord(res.v)))

\* the arguments of a Plane constructor make a zero normal: three collinear
\* points, or a zero vector given as the normal
ZeroNormalGiven(args) ==
    IF Len(args) = 3 THEN
        CZero(CCross(CSub(Coord(args[2]), Coord(args[1])),
                     CSub(Coord(args[3]), Coord(args[1]))))
    ELSE IF args[1].cls = "Point3" THEN CZero(Coord(args[2]))
    ELSE CZero(Coord(args[1]))

C12_ZeroNormalWithPoint ==
    /\ pc = "made" /\ op = "Plane" /\ Len(given) = 2
    /\ given[1].cls = "Point3" /\ ZeroNormalGiven(given) /\ IsError(res)

\* ... and in the normal + offset form
C12_ZeroNormalWithOffset ==
    /\ pc = "made" /\ op = "Plane" /\ Len(given) = 2
    /\ given[2].cls = "float" /\ ZeroNormalGiven(given) /\ IsError(res)

\* the points a Plane constructor was given
GivenPoints(args) ==
    IF Len(args) = 3 THEN {args[1], args[2], args[3]}
    ELSE IF args[1].cls = "Point3" THEN {args[1]}
    ELSE {}

\* a Plane was built and its normal is rational
PlaneBuilt ==
    /\ pc = "made" /\ op = "Plane" /\ res.cls = "Plane"
    /\ NoIrr(res.n)

\* the point p satisfies n.p = k on the plane P
OnPlane(P, p) == CDot(Coord(P.n), Coord(p)) = P.k

\* C13: every successfully constructed Plane, by each form and for normals of
\* any non-zero length, stores a unit-length normal n (n.n = 1) and an offset
\* k such that n.p = k for the construction points and for _get_point().
C13_UnitNormalAndOffset ==
    PlaneBuilt
    => /\ CDot(Coord(res.n), Coord(res.n)) = Q(1)
       /\ \A p \in GivenPoints(given) : OnPlane(res, p)
       /\ OnPlane(res, Plane_get_point(res))

\* C13, the failing case: a plane built from a point and the normal (0, 2, 0)
\* stores that normal, of squared length 4
C13_NormalKeptUnscaled ==
    /\ PlaneBuilt /\ Len(given) = 2 /\ given[1].cls = "Point3"
    /\ given[2] = V3(0, 2, 0)
    /\ res.n = V3(0, 2, 0)
    /\ CDot(Coord(res.n), Coord(res.n)) = Q(4)

\* C13, what holds: the construction points and _get_point() satisfy
\* n.p = k, and the three-point form stores a unit normal
C13_PointsOnPlane ==
    PlaneBuilt
    => /\ \A p \in GivenPoints(given) : OnPlane(res, p)
       /\ OnPlane(res, Plane_get_point(res))
       /\ Len(given) = 3 => CDot(Coord(res.n), Coord(res.n)) = Q(1)

\* a three-point plane whose cross product is not of unit length is built
C13_ThreePointPlane ==
    /\ PlaneBuilt /\ Len(given) = 3
    /\ given[1] = P3(0, 1, 2)
    /\ CDot(Coord(res.n), Coord(res.n)) = Q(1)

---------------------------------------------------------------------------
(* Vector arithmetic.  A client draws one or two vectors or points and     *)
(* calls an operator or a method on them: given holds the operands as      *)
(* passed, lhs and rhs the same objects when the call has returned, res    *)
(* the value returned.                                                     *)

\* Vector2.__add__ on a Vector2 or Point2 operand
Vector2_add(a, b) ==
    IF a.cls = b.cls THEN Vector2(a.x ++ b.x, a.y ++ b.y)
    ELSE Point2(a.x ++ b.x, a.y ++ b.y)

\* Vector3.__add__ on a Vector3 or Point3 operand
Vector3_add(a, b) ==
    IF a.cls = b.cls THEN Vector3(a.x ++ b.x, a.y ++ b.y, a.z ++ b.z)
    ELSE Point3(a.x ++ b.x, a.y ++ b.y, a.z ++ b.z)

\* Vector2.normalized: a new Vector2, or self.copy for the zero vector
Vector2_normalized(a) ==
    IF IsZero(Vector2_magnitude(a)) THEN a
    ELSE Vector2(a.x // Vector2_magnitude(a), a.y // Vector2_magnitude(a))

\* a + b, a - b, a.normalize(), a.normalized() by the class of a
__add__(a, b) == IF Is2(a) THEN Vector2_add(a, b) ELSE Vector3_add(a, b)

__sub__(a, b) == IF Is2(a) THEN Vector2_sub(a, b) ELSE Vector3_sub(a, b)

normalize(a) == IF Is2(a) THEN Vector2_normalize(a) ELSE Vector3_normalize(a)

normalized(a) == IF Is2(a) THEN Vector2_normalized(a) ELSE Vector3_normalized(a)

\* the vectors and points drawn: every one over the coordinates, and some
\* of integer length with larger or negative components
Vecs2 == Pts2 \cup {V2(i, j) : i \in Coords, j \in Coords}

Vecs3 == Pts3 \cup {V3(i, j, k) : i \in Coords, j \in Coords, k \in Coords}

Long2 == {V2(3, 4), P2(3, 4), V2(-4, 3), V2(0, -2), P2(-3, 0)}

Long3 == {V3(1, 2, 2), P3(1, 2, 2), V3(2, -1, 2), V3(0, 3, 4), P3(0, 0, -2)}

VecPairs ==
    {<<a, b>> : a \in Vecs2, b \in Vecs2} \cup {<<a, b>> : a \in Vecs3, b \in Vecs3}

Receivers == Vecs2 \cup Vecs3 \cup Long2 \cup Long3

WhenIdle(S) == IF pc = "idle" THEN S ELSE {}

\* a + b: neither operand is modified
Add ==
    \E t \in WhenIdle(VecPairs) :
        /\ pc' = "returned"
        /\ op' = "add"
        /\ given' = t
        /\ lhs' = t[1]
        /\ rhs' = t[2]
        /\ res' = __add__(t[1], t[2])
        /\ UNCHANGED <<how, howrev, rev>>

\* a - b: neither operand is modified
Sub ==
    \E t \in WhenIdle(VecPairs) :
        /\ pc' = "returned"
        /\ op' = "sub"
        /\ given' = t
        /\ lhs' = t[1]
        /\ rhs' = t[2]
        /\ res' = __sub__(t[1], t[2])
        /\ UNCHANGED <<how, howrev, rev>>

\* a.normalize(): scales the receiver in place and returns it
Normalize ==
    \E a \in WhenIdle(Receivers) :
        /\ pc' = "returned"
        /\ op' = "normalize"
        /\ given' = <<a>>
        /\ lhs' = normalize(a)
        /\ NoIrr(lhs')
        /\ res' = lhs'
        /\ UNCHANGED <<rhs, how, howrev, rev>>

\* a.normalized(): reads the receiver and returns a vector
Normalized ==
    \E a \in WhenIdle(Receivers) :
        /\ pc' = "returned"
        /\ op' = "normalized"
        /\ given' = <<a>>
        /\ lhs' = a
        /\ res' = normalized(a)
        /\ NoIrr(res')
        /\ UNCHANGED <<rhs, how, howrev, rev>>

NextVec == Add \/ Sub \/ Normalize \/ Normalized \/ Reset

SpecVec == Init /\ [][NextVec]_vars

IsPt(v) == v.cls \in {"Point2", "Point3"}

IsVec(v) == v.cls \in {"Vector2", "Vector3"}

Summed == pc = "returned" /\ op \in {"add", "sub"}

\* C14: Point - Point is a Vector, Point + Vector and Point - Vector are
\* Points, Vector + Vector and Vector - Vector are Vectors (of the operands'
\* dimension).
C14_ResultKind ==
    Summed
    => /\ (op = "sub" /\ IsPt(given[1]) /\ IsPt(given[2])) => IsVec(res)
       /\ (IsPt(given[1]) /\ IsVec(given[2])) => IsPt(res)
       /\ (IsVec(given[1]) /\ IsVec(given[2])) => IsVec(res)
       /\ Is2(res) = Is2(given[1])

\* C14, the failing case: Point2 - Vector2 returns a Vector2
C14_PointMinusVectorIsVector ==
    /\ Summed /\ op = "sub"
    /\ given[1].cls = "Point2" /\ given[2].cls = "Vector2"
    /\ res.cls = "Vector2"

\* C14, what holds: every kind the claim names but that of Point - Vector
C14_KindButPointMinusVector ==
    Summed
    => /\ (op = "sub" /\ IsPt(given[1]) /\ IsPt(given[2])) => IsVec(res)
       /\ (op = "add" /\ IsPt(given[1]) /\ IsVec(given[2])) => IsPt(res)
       /\ (IsVec(given[1]) /\ IsVec(given[2])) => IsVec(res)
       /\ Is2(res) = Is2(given[1])

---------------------------------------------------------------------------
(* Object identity.  A vector or point is a mutable object: here it also   *)
(* carries the identity of the object (id), and two components that carry  *)
(* the same id are one object, so a write through one is seen through the  *)
(* other.  A client calls intersect or connect on two primitives it owns,  *)
(* then mutates the result or an operand.                                  *)

WithId(v, id) ==
    IF Is2(v) THEN [cls |-> v.cls, x |-> v.x, y |-> v.y, id |-> id]
    ELSE [cls |-> v.cls, x |-> v.x, y |-> v.y, z |-> v.z, id |-> id]

NoId(v) ==
    IF Is2(v) THEN [cls |-> v.cls, x |-> v.x, y |-> v.y]
    ELSE [cls |-> v.cls, x |-> v.x, y |-> v.y, z |-> v.z]

\* the mutable components of a primitive; a point is its own component
Cells(o) ==
    CASE IsPoint(o) -> {"self"}
      [] IsLine(o) -> {"p", "v"}
      [] IsRound(o) -> {"c"}
      [] o.cls = "Plane" -> {"n"}
      [] OTHER -> {}

\* the primitive o, its components being the objects ids names
Identified(o, ids) ==
    CASE IsPoint(o) -> WithId(o, ids.self)
      [] IsLine(o) -> [o EXCEPT !.p = WithId(o.p, ids.p), !.v = WithId(o.v, ids.v)]
      [] IsRound(o) -> [o EXCEPT !.c = WithId(o.c, ids.c)]
      [] o.cls = "Plane" -> [o EXCEPT !.n = WithId(o.n, ids.n)]
      [] OTHER -> o

\* a primitive the client built: every component is an object of its own
Owned(o, who) == Identified(o, [c \in Cells(o) |-> <<who, c>>])

\* the value of a primitive, identities dropped
Bare(o) ==
    CASE IsPoint(o) -> NoId(o)
      [] IsLine(o) -> [o EXCEPT !.p = NoId(o.p), !.v = NoId(o.v)]
      [] IsRound(o) -> [o EXCEPT !.c = NoId(o.c)]
      [] o.cls = "Plane" -> [o EXCEPT !.n = NoId(o.n)]
      [] OTHER -> o

\* a write to a vector: v.x += 1 by a client, or Vector.__imul__(-1)
Changed(v, how_) ==
    IF how_ = "imul" THEN
        IF Is2(v) THEN [v EXCEPT !.x = RNeg(v.x), !.y = RNeg(v.y)]
        ELSE [v EXCEPT !.x = RNeg(v.x), !.y = RNeg(v.y), !.z = RNeg(v.z)]
    ELSE [v EXCEPT !.x = v.x ++ Q(1)]

WrittenCell(v, id, how_) == IF v.id = id THEN Changed(v, how_) ELSE v

\* the primitive o after a write to the object id
Written(o, id, how_) ==
    CASE IsPoint(o) -> WrittenCell(o, id, how_)
      [] IsLine(o) -> [o EXCEPT !.p = WrittenCell(o.p, id, how_),
                                !.v = WrittenCell(o.v, id, how_)]
      [] IsRound(o) -> [o EXCEPT !.c = WrittenCell(o.c, id, how_)]
      [] o.cls = "Plane" -> [o EXCEPT !.n = WrittenCell(o.n, id, how_)]
      [] OTHER -> o

\* a new object made during the call
Temp(name) == <<"call", name>>

\* Line2.__init__ / Line3.__init__ without the copy: self.p = args[0]
Line_stored_p_uncopied(arg0) == arg0

\* Line2.__init__ / Line3.__init__, two points: self.p = args[0].copy(),
\* a new object whatever args[0] is
Line_stored_p(arg0) == Temp("p")

\* the object an algorithm gives as args[0] to the constructor of the segment
\* it returns: an operand, a component of one, or a point it has just made.
\* A and B name the owners of the algorithm's first and second argument.
Origin(alg, a, b, A, B) ==
    CASE alg \in {"LineSegment2", "Point3._connect_point3",
                  "_connect_point2_line2", "_connect_point2_circle",
                  "_connect_point3_line3", "_connect_point3_sphere",
                  "_connect_point3_plane"} -> <<A, "self">>
      [] alg = "_connect_line2_line2" ->
             IF IsZero(Det2(a, b)) /\ b.cls = "Line2" THEN <<A, "p">>
             ELSE Temp("point")
      [] alg = "_connect_line3_line3" ->
             IF ~CZero(CCross(Coord(a.v), Coord(b.v))) THEN Temp("point")
             ELSE IF b.cls \in {"Ray3", "LineSegment3"} THEN <<B, "p">>
             ELSE <<A, "p">>
      [] alg = "_connect_line3_plane" ->
             IF IsZero(Vector3_dot(b.n, a.v)) THEN <<A, "p">> ELSE Temp("point")
      [] OTHER -> Temp("point")

\* the returned segment was swapped (self.p = self.p2, a new Point), by the
\* handler or by _connect_line3_line3 itself
Swapped(alg, post, a, b) ==
    \/ post = "swap"
    \/ /\ alg = "_connect_line3_line3"
       /\ CZero(CCross(Coord(a.v), Coord(b.v)))
       /\ b.cls \in {"Ray3", "LineSegment3"}

\* the objects the components of the returned value c are
ResultIds(c, alg, post, a, b, A, B) ==
    IF IsLine(c) THEN
        [p |-> IF Swapped(alg, post, a, b) THEN Temp("p2")
               ELSE Line_stored_p(Origin(alg, a, b, A, B)),
         v |-> Temp("v")]
    ELSE [self |-> Temp("self")]

\* the owner of the algorithm's first argument in x.<o>(y)
FirstOwner(o, x, y) ==
    IF Lookup(y.cls, <<o, Key(x.cls)>>).first = "self" THEN "rhs" ELSE "lhs"

Other(who) == IF who = "lhs" THEN "rhs" ELSE "lhs"

\* the value x.<o>(y) returns, with the identities of its components
Shared(o, x, y, r) ==
    Identified(Run(r), ResultIds(Run(r), r.alg, r.post, r.a, r.b,
                                 FirstOwner(o, x, y), Other(FirstOwner(o, x, y))))

\* the operands the client owns: two primitives out of those of the examples
OwnedPairs ==
    {<<New(t[1][1], t[1][2]), New(t[2][1], t[2][2])>> :
        t \in (AnchorArgs2 \X AnchorArgs2) \cup (AnchorArgs3 \X AnchorArgs3)}

\* x.intersect(y) or x.connect(y) on two owned primitives.  The in-place
\* steps of the algorithms (v.normalize(), v *= r) write to a vector the
\* algorithm has made (v = P - C.c), the object "work" of the call.
CallOwned(o, x, y) ==
    /\ RoundOK(x, y)
    /\ pc' = "returned"
    /\ op' = o
    /\ given' = <<x, y>>
    /\ how' = Resolve(o, x, y)
    /\ res' = Shared(o, x, y, how')
    /\ NoIrr(Bare(res'))
    /\ lhs' = Written(Owned(x, "lhs"), Temp("work"), "imul")
    /\ rhs' = Written(Owned(y, "rhs"), Temp("work"), "imul")
    /\ UNCHANGED <<howrev, rev>>

IntersectOwned ==
    \E pr \in WhenIdle(OwnedPairs) : CallOwned("intersect", pr[1], pr[2])

ConnectOwned ==
    \E pr \in WhenIdle(OwnedPairs) : CallOwned("connect", pr[1], pr[2])

\* the object that is the component c of o
CellId(o, c) == IF c = "self" THEN o.id ELSE o[c].id

Holds(o) == IF pc = "returned" THEN Cells(o) ELSE {}

\* the client writes to a component of the result
MutateResult ==
    \E c \in Holds(res) :
        /\ pc' = "result_mutated"
        /\ res' = Written(res, CellId(res, c), "setx")
        /\ lhs' = Written(lhs, CellId(res, c), "setx")
        /\ rhs' = Written(rhs, CellId(res, c), "setx")
        /\ UNCHANGED <<op, given, how, howrev, rev>>

\* the client swaps the endpoints of a returned segment: _swap rebinds p to
\* the new Point p2 and scales the object v in place
SwapResult ==
    /\ pc = "returned"
    /\ res.cls \in {"LineSegment2", "LineSegment3"}
    /\ pc' = "result_mutated"
    /\ res' = [res EXCEPT
                 !.p = WithId(IF Is2(res.p) THEN Line2_p2(res) ELSE Line3_p2(res),
                              Temp("p2 of swap")),
                 !.v = Changed(res.v, "imul")]
    /\ lhs' = Written(lhs, res.v.id, "imul")
    /\ rhs' = Written(rhs, res.v.id, "imul")
    /\ UNCHANGED <<op, given, how, howrev, rev>>

\* the client writes to a component of an operand
MutateOperand ==
    \E who \in {"lhs", "rhs"} :
        \E c \in Holds(IF who = "lhs" THEN lhs ELSE rhs) :
            /\ pc' = "operand_mutated"
            /\ lhs' = Written(lhs, <<who, c>>, "setx")
            /\ rhs' = Written(rhs, <<who, c>>, "setx")
            /\ res' = Written(res, <<who, c>>, "setx")
            /\ UNCHANGED <<op, given, how, howrev, rev>>

NextOwned ==
    IntersectOwned \/ ConnectOwned \/ MutateResult \/ SwapResult
    \/ MutateOperand \/ Reset

SpecOwned == Init /\ [][NextOwned]_vars

C15_ResultWritten ==
    /\ pc = "result_mutated"
    /\ how.alg = "_connect_point2_line2" /\ how.post = "return"
    /\ res.p.id = Temp("p") /\ res.p.x = given[1].x ++ Q(1)
    /\ Bare(lhs) = given[1]

---------------------------------------------------------------------------
(* Matrices.  A Matrix3 has the cells a b c / e f g / i j k, a Matrix4 the *)
(* cells a b c d / e f g h / i j k l / m n o p, every cell a rational.     *)

\* Matrix4(): the identity
Matrix4 ==
    [cls |-> "Matrix4",
     a |-> Q(1), b |-> Q(0), c |-> Q(0), d |-> Q(0),
     e |-> Q(0), f |-> Q(1), g |-> Q(0), h |-> Q(0),
     i |-> Q(0), j |-> Q(0), k |-> Q(1), l |-> Q(0),
     m |-> Q(0), n |-> Q(0), o |-> Q(0), p |-> Q(1)]

\* Matrix3(): the identity
Matrix3 ==
    [cls |-> "Matrix3",
     a |-> Q(1), b |-> Q(0), c |-> Q(0),
     e |-> Q(0), f |-> Q(1), g |-> Q(0),
     i |-> Q(0), j |-> Q(0), k |-> Q(1)]

\* Matrix4.__getitem__ with the key [:]: the list the cells are read into
Matrix4_getitem(M) ==
    <<M.a, M.e, M.i, M.m, M.b, M.f, M.j, M.n,
      M.c, M.g, M.k, M.o, M.d, M.h, M.l, M.p>>

\* the cells read row by row instead
Matrix4_getitem_by_rows(M) ==
    <<M.a, M.b, M.c, M.d, M.e, M.f, M.g, M.h,
      M.i, M.j, M.k, M.l, M.m, M.n, M.o, M.p>>

\* Matrix4.__setitem__ with the key [:] and 16 values
Matrix4_setitem(M, t) ==
    [M EXCEPT !.a = t[1], !.e = t[2], !.i = t[3], !.m = t[4],
              !.b = t[5], !.f = t[6], !.j = t[7], !.n = t[8],
              !.c = t[9], !.g = t[10], !.k = t[11], !.o = t[12],
              !.d = t[13], !.h = t[14], !.l = t[15], !.p = t[16]]

\* Matrix4.new(*vals)
Matrix4_new(vals) == Matrix4_setitem(Matrix4, vals)

Dot3(a1, b1, a2, b2, a3, b3) == ((a1 ** b1) ++ (a2 ** b2)) ++ (a3 ** b3)

Dot4(a1, b1, a2, b2, a3, b3, a4, b4) ==
    (((a1 ** b1) ++ (a2 ** b2)) ++ (a3 ** b3)) ++ (a4 ** b4)

\* Matrix4.__mul__, other a Matrix4
Matrix4_mul(A, B) ==
    [cls |-> "Matrix4",
     a |-> Dot4(A.a, B.a, A.b, B.e, A.c, B.i, A.d, B.m),
     b |-> Dot4(A.a, B.b, A.b, B.f, A.c, B.j, A.d, B.n),
     c |-> Dot4(A.a, B.c, A.b, B.g, A.c, B.k, A.d, B.o),
     d |-> Dot4(A.a, B.d, A.b, B.h, A.c, B.l, A.d, B.p),
     e |-> Dot4(A.e, B.a, A.f, B.e, A.g, B.i, A.h, B.m),
     f |-> Dot4(A.e, B.b, A.f, B.f, A.g, B.j, A.h, B.n),
     g |-> Dot4(A.e, B.c, A.f, B.g, A.g, B.k, A.h, B.o),
     h |-> Dot4(A.e, B.d, A.f, B.h, A.g, B.l, A.h, B.p),
     i |-> Dot4(A.i, B.a, A.j, B.e, A.k, B.i, A.l, B.m),
     j |-> Dot4(A.i, B.b, A.j, B.f, A.k, B.j, A.l, B.n),
     k |-> Dot4(A.i, B.c, A.j, B.g, A.k, B.k, A.l, B.o),
     l |-> Dot4(A.i, B.d, A.j, B.h, A.k, B.l, A.l, B.p),
     m |-> Dot4(A.m, B.a, A.n, B.e, A.o, B.i, A.p, B.m),
     n |-> Dot4(A.m, B.b, A.n, B.f, A.o, B.j, A.p, B.n),
     o |-> Dot4(A.m, B.c, A.n, B.g, A.o, B.k, A.p, B.o),
     p |-> Dot4(A.m, B.d, A.n, B.h, A.o, B.l, A.p, B.p)]

\* Matrix4.__mul__, other a Point3: no division by w
Matrix4_mul_Point3(A, b) ==
    Point3(Dot3(A.a, b.x, A.b, b.y, A.c, b.z) ++ A.d,
           Dot3(A.e, b.x, A.f, b.y, A.g, b.z) ++ A.h,
           Dot3(A.i, b.x, A.j, b.y, A.k, b.z) ++ A.l)

\* Matrix4.__mul__, other a Vector3 that is no Point3
Matrix4_mul_Vector3(A, b) ==
    Vector3(Dot3(A.a, b.x, A.b, b.y, A.c, b.z),
            Dot3(A.e, b.x, A.f, b.y, A.g, b.z),
            Dot3(A.i, b.x, A.j, b.y, A.k, b.z))

\* the w of Matrix4.transform
Matrix4_w(A, b) == Dot3(A.m, b.x, A.n, b.y, A.o, b.z) ++ A.p

\* p.x /= w, p.y /= w, p.z /= w
Point3_div(p, w) == Point3(p.x // w, p.y // w, p.z // w)

\* Matrix4.transform
Matrix4_transform(A, b) ==
    IF ~IsZero(Matrix4_w(A, b)) THEN
        Point3_div(Matrix4_mul_Point3(A, b), Matrix4_w(A, b))
    ELSE Matrix4_mul_Point3(A, b)

\* Matrix4.__mul__ by the class of other
Matrix4___mul__(A, other) ==
    CASE other.cls = "Matrix4" -> Matrix4_mul(A, other)
      [] other.cls = "Point3" -> Matrix4_mul_Point3(A, other)
      [] other.cls = "Vector3" -> Matrix4_mul_Vector3(A, other)

\* x * y - z * w
Minor(x, y, z, w) == (x ** y) -- (z ** w)

\* Matrix4.determinant
Matrix4_determinant(M) ==
    (((((Minor(M.a, M.f, M.e, M.b) ** Minor(M.k, M.p, M.o, M.l))
      -- (Minor(M.a, M.j, M.i, M.b) ** Minor(M.g, M.p, M.o, M.h)))
      ++ (Minor(M.a, M.n, M.m, M.b) ** Minor(M.g, M.l, M.k, M.h)))
      ++ (Minor(M.e, M.j, M.i, M.f) ** Minor(M.c, M.p, M.o, M.d)))
      -- (Minor(M.e, M.n, M.m, M.f) ** Minor(M.c, M.l, M.k, M.d)))
      ++ (Minor(M.i, M.n, M.m, M.j) ** Minor(M.c, M.h, M.g, M.d))

\* d * (x * m1 + y * m2 + z * m3), a cell of Matrix4.inverse
Cell3(d, x, m1, y, m2, z, m3) == d ** Dot3(x, m1, y, m2, z, m3)

\* Matrix4.inverse from d = 1.0 / determinant on
Matrix4_inverted(M, d) ==
    [cls |-> "Matrix4",
     a |-> Cell3(d, M.f, Minor(M.k, M.p, M.o, M.l), M.j, Minor(M.o, M.h, M.g, M.p),
                    M.n, Minor(M.g, M.l, M.k, M.h)),
     e |-> Cell3(d, M.g, Minor(M.i, M.p, M.m, M.l), M.k, Minor(M.m, M.h, M.e, M.p),
                    M.o, Minor(M.e, M.l, M.i, M.h)),
     i |-> Cell3(d, M.h, Minor(M.i, M.n, M.m, M.j), M.l, Minor(M.m, M.f, M.e, M.n),
                    M.p, Minor(M.e, M.j, M.i, M.f)),
     m |-> Cell3(d, M.e, Minor(M.n, M.k, M.j, M.o), M.i, Minor(M.f, M.o, M.n, M.g),
                    M.m, Minor(M.j, M.g, M.f, M.k)),
     b |-> Cell3(d, M.j, Minor(M.c, M.p, M.o, M.d), M.n, Minor(M.k, M.d, M.c, M.l),
                    M.b, Minor(M.o, M.l, M.k, M.p)),
     f |-> Cell3(d, M.k, Minor(M.a, M.p, M.m, M.d), M.o, Minor(M.i, M.d, M.a, M.l),
                    M.c, Minor(M.m, M.l, M.i, M.p)),
     j |-> Cell3(d, M.l, Minor(M.a, M.n, M.m, M.b), M.p, Minor(M.i, M.b, M.a, M.j),
                    M.d, Minor(M.m, M.j, M.i, M.n)),
     n |-> Cell3(d, M.i, Minor(M.n, M.c, M.b, M.o), M.m, Minor(M.b, M.k, M.j, M.c),
                    M.a, Minor(M.j, M.o, M.n, M.k)),
     c |-> Cell3(d, M.n, Minor(M.c, M.h, M.g, M.d), M.b, Minor(M.g, M.p, M.o, M.h),
                    M.f, Minor(M.o, M.d, M.c, M.p)),
     g |-> Cell3(d, M.o, Minor(M.a, M.h, M.e, M.d), M.c, Minor(M.e, M.p, M.m, M.h),
                    M.g, Minor(M.m, M.d, M.a, M.p)),
     k |-> Cell3(d, M.p, Minor(M.a, M.f, M.e, M.b), M.d, Minor(M.e, M.n, M.m, M.f),
                    M.h, Minor(M.m, M.b, M.a, M.n)),
     o |-> Cell3(d, M.m, Minor(M.f, M.c, M.b, M.g), M.a, Minor(M.n, M.g, M.f, M.o),
                    M.e, Minor(M.b, M.o, M.n, M.c)),
     d |-> Cell3(d, M.b, Minor(M.k, M.h, M.g, M.l), M.f, Minor(M.c, M.l, M.k, M.d),
                    M.j, Minor(M.g, M.d, M.c, M.h)),
     h |-> Cell3(d, M.c, Minor(M.i, M.h, M.e, M.l), M.g, Minor(M.a, M.l, M.i, M.d),
                    M.k, Minor(M.e, M.d, M.a, M.h)),
     l |-> Cell3(d, M.d, Minor(M.i, M.f, M.e, M.j), M.h, Minor(M.a, M.j, M.i, M.b),
                    M.l, Minor(M.e, M.b, M.a, M.f)),
     p |-> Cell3(d, M.a, Minor(M.f, M.k, M.j, M.g), M.e, Minor(M.j, M.c, M.b, M.k),
                    M.i, Minor(M.b, M.g, M.f, M.c))]

\* abs(d) < 0.001
TooSmall(d) == RLt(d, <<1, 1000>>) /\ RLt(RNeg(d), <<1, 1000>>)

\* Matrix4.inverse that gives up on a zero determinant only
Matrix4_inverse_of_nonzero(M, d) ==
    IF IsZero(d) THEN Matrix4 ELSE Matrix4_inverted(M, Q(1) // d)

\* Matrix4.inverse without d = 1.0 / d
Matrix4_inverse_of_unscaled(M, d) ==
    IF TooSmall(d) THEN Matrix4 ELSE Matrix4_inverted(M, d)

\* Matrix4.inverse from d = self.determinant on
Matrix4_inverse_of(M, d) ==
    IF TooSmall(d) THEN Matrix4 ELSE Matrix4_inverted(M, Q(1) // d)

\* Matrix4.inverse
Matrix4_inverse(M) == Matrix4_inverse_of(M, Matrix4_determinant(M))

\* Matrix3.__mul__, other a Matrix3
Matrix3_mul(A, B) ==
    [cls |-> "Matrix3",
     a |-> Dot3(A.a, B.a, A.b, B.e, A.c, B.i),
     b |-> Dot3(A.a, B.b, A.b, B.f, A.c, B.j),
     c |-> Dot3(A.a, B.c, A.b, B.g, A.c, B.k),
     e |-> Dot3(A.e, B.a, A.f, B.e, A.g, B.i),
     f |-> Dot3(A.e, B.b, A.f, B.f, A.g, B.j),
     g |-> Dot3(A.e, B.c, A.f, B.g, A.g, B.k),
     i |-> Dot3(A.i, B.a, A.j, B.e, A.k, B.i),
     j |-> Dot3(A.i, B.b, A.j, B.f, A.k, B.j),
     k |-> Dot3(A.i, B.c, A.j, B.g, A.k, B.k)]

\* Matrix3.determinant
Matrix3_determinant(M) ==
    ((((((M.a ** M.f) ** M.k) ++ ((M.b ** M.g) ** M.i))
      ++ ((M.c ** M.e) ** M.j)) -- ((M.a ** M.g) ** M.j))
      -- ((M.b ** M.e) ** M.k)) -- ((M.c ** M.f) ** M.i)

\* Matrix3.inverse from d = 1.0 / determinant on
Matrix3_inverted(M, d) ==
    [cls |-> "Matrix3",
     a |-> d ** Minor(M.f, M.k, M.g, M.j),
     b |-> d ** Minor(M.c, M.j, M.b, M.k),
     c |-> d ** Minor(M.b, M.g, M.c, M.f),
     e |-> d ** Minor(M.g, M.i, M.e, M.k),
     f |-> d ** Minor(M.a, M.k, M.c, M.i),
     g |-> d ** Minor(M.c, M.e, M.a, M.g),
     i |-> d ** Minor(M.e, M.j, M.f, M.i),
     j |-> d ** Minor(M.b, M.i, M.a, M.j),
     k |-> d ** Minor(M.a, M.f, M.b, M.e)]

\* Matrix3.inverse from d = self.determinant on
Matrix3_inverse_of(M, d) ==
    IF TooSmall(d) THEN Matrix3 ELSE Matrix3_inverted(M, Q(1) // d)

\* Matrix3.inverse
Matrix3_inverse(M) == Matrix3_inverse_of(M, Matrix3_determinant(M))

\* the Matrix4 whose cells a..p are the integers t[1]..t[16]
M4(t) ==
    [cls |-> "Matrix4",
     a |-> Q(t[1]), b |-> Q(t[2]), c |-> Q(t[3]), d |-> Q(t[4]),
     e |-> Q(t[5]), f |-> Q(t[6]), g |-> Q(t[7]), h |-> Q(t[8]),
     i |-> Q(t[9]), j |-> Q(t[10]), k |-> Q(t[11]), l |-> Q(t[12]),
     m |-> Q(t[13]), n |-> Q(t[14]), o |-> Q(t[15]), p |-> Q(t[16])]

\* the Matrix3 whose cells a..k are the integers t[1]..t[9]
M3(t) ==
    [cls |-> "Matrix3",
     a |-> Q(t[1]), b |-> Q(t[2]), c |-> Q(t[3]),
     e |-> Q(t[4]), f |-> Q(t[5]), g |-> Q(t[6]),
     i |-> Q(t[7]), j |-> Q(t[8]), k |-> Q(t[9])]

\* matrices of determinant 1 or -1: a translation, shears, row exchanges,
\* projective rows
Unimodular4 ==
    {M4(<<1, 0, 0, 1,   0, 1, 0, 2,   0, 0, 1, -1,   0, 0, 0, 1>>),
     M4(<<1, 1, 0, 0,   0, 1, 0, 0,   0, 0, 1, 0,    0, 0, 0, 1>>),
     M4(<<1, 0, 0, 0,   0, 1, 0, 0,   1, 0, 1, 0,    0, 0, 0, 1>>),
     M4(<<1, 0, 0, 0,   0, 1, -2, 0,  0, 0, 1, 0,    0, 0, 0, 1>>),
     M4(<<0, 1, 0, 0,   1, 0, 0, 0,   0, 0, 1, 0,    0, 0, 0, 1>>),
     M4(<<0, 0, 0, 1,   1, 0, 0, 0,   0, 1, 0, 0,    0, 0, 1, 0>>),
     M4(<<1, 0, 0, 0,   0, 1, 0, 0,   0, 0, 1, 0,    1, 0, 1, 1>>),
     M4(<<1, 0, 0, 0,   0, 1, 0, 0,   0, 0, 1, 0,    0, -1, 0, 1>>),
     M4(<<1, 0, 0, 0,   0, -1, 0, 0,  0, 0, 1, 0,    0, 0, 0, 1>>)}

\* matrices of another determinant: scalings, singular ones, determinants
\* around the threshold of inverse
Scaled4 ==
    {M4(<<2, 0, 0, 0,   0, 1, 0, 0,   0, 0, 1, 0,    0, 0, 0, 1>>),
     M4(<<1, 0, 0, 0,   0, 1, 0, 0,   0, 0, 1, 0,    0, 0, 0, 2>>),
     M4(<<1, 0, 0, 0,   0, 1, 0, 0,   0, 0, 0, 0,    0, 0, 0, 1>>),
     M4(<<1, 2, 0, 0,   2, 4, 0, 0,   0, 0, 1, 0,    0, 0, 0, 1>>),
     M4(<<0, 0, 0, 0,   0, 0, 0, 0,   0, 0, 0, 0,    0, 0, 0, 0>>),
     [Matrix4 EXCEPT !.a = <<1, 2000>>],
     [Matrix4 EXCEPT !.f = <<-1, 2000>>, !.d = Q(1)],
     [Matrix4 EXCEPT !.k = <<1, 1000>>],
     [Matrix4 EXCEPT !.p = <<1, 100>>]}

Mats4 ==
    {Matrix4} \cup Scaled4
    \cup {Matrix4_mul(A, B) : A \in Unimodular4, B \in Unimodular4 \cup Scaled4}

Unimodular3 ==
    {M3(<<1, 0, 1,   0, 1, 2,   0, 0, 1>>),
     M3(<<1, 1, 0,   0, 1, 0,   0, 0, 1>>),
     M3(<<0, 1, 0,   1, 0, 0,   0, 0, 1>>),
     M3(<<1, 0, 0,   0, 1, 0,   1, -1, 1>>),
     M3(<<0, 0, 1,   1, 0, 0,   0, 1, 0>>)}

Scaled3 ==
    {M3(<<2, 0, 0,   0, 1, 0,   0, 0, 1>>),
     M3(<<1, 2, 0,   2, 4, 0,   0, 0, 1>>),
     M3(<<0, 0, 0,   0, 0, 0,   0, 0, 0>>),
     [Matrix3 EXCEPT !.a = <<1, 2000>>],
     [Matrix3 EXCEPT !.f = <<-1, 2000>>, !.c = Q(1)],
     [Matrix3 EXCEPT !.k = <<1, 1000>>]}

\* products of three: matrices with few zero cells
Dense4 ==
    {Matrix4_mul(Matrix4_mul(A, B), C) :
        A \in Unimodular4, B \in Unimodular4, C \in Unimodular4 \cup Scaled4}

Mats3 ==
    {Matrix3} \cup Scaled3
    \cup {Matrix3_mul(A, B) : A \in Unimodular3, B \in Unimodular3 \cup Scaled3}

\* sixteen different values
Counted == [n \in 1 .. 16 |-> Q(n)]

\* M * other
Multiply ==
    \E M \in WhenIdle(Mats4) :
        \E other \in Vecs3 \cup Unimodular4 :
            /\ pc' = "returned"
            /\ op' = "mul"
            /\ given' = <<M, other>>
            /\ lhs' = M
            /\ rhs' = other
            /\ res' = Matrix4___mul__(M, other)
            /\ UNCHANGED <<how, howrev, rev>>

\* M.transform(P)
Transform ==
    \E M \in WhenIdle(Mats4) :
        \E P \in Pts3 :
            /\ pc' = "returned"
            /\ op' = "transform"
            /\ given' = <<M, P>>
            /\ lhs' = M
            /\ rhs' = P
            /\ res' = Matrix4_transform(M, P)
            /\ UNCHANGED <<how, howrev, rev>>

\* M[:]
GetItems ==
    \E M \in WhenIdle(Mats4 \cup {M4([n \in 1 .. 16 |-> n])}) :
        /\ pc' = "returned"
        /\ op' = "getitem"
        /\ given' = <<M>>
        /\ lhs' = M
        /\ res' = Matrix4_getitem(M)
        /\ UNCHANGED <<rhs, how, howrev, rev>>

\* Matrix4.new(*vals)
NewMatrix ==
    \E vals \in WhenIdle({Counted} \cup {Matrix4_getitem_by_rows(M) : M \in Mats4}) :
        /\ pc' = "returned"
        /\ op' = "new"
        /\ given' = vals
        /\ res' = Matrix4_new(vals)
        /\ UNCHANGED <<lhs, rhs, how, howrev, rev>>

\* M.inverse, M a Matrix4 or a Matrix3
Inverse ==
    \E M \in WhenIdle(Mats4 \cup Mats3 \cup Dense4) :
        /\ pc' = "returned"
        /\ op' = "inverse"
        /\ given' = <<M>>
        /\ lhs' = M
        /\ res' = IF M.cls = "Matrix4" THEN Matrix4_inverse(M) ELSE Matrix3_inverse(M)
        /\ UNCHANGED <<rhs, how, howrev, rev>>

NextMat == Multiply \/ Transform \/ GetItems \/ NewMatrix \/ Inverse \/ Reset

SpecMat == Init /\ [][NextMat]_vars

Did(o) == pc = "returned" /\ op = o

\* the upper-left 3x3 part of M applied to the coordinates of b
Linear(M, b) ==
    <<Dot3(M.a, b.x, M.b, b.y, M.c, b.z),
      Dot3(M.e, b.x, M.f, b.y, M.g, b.z),
      Dot3(M.i, b.x, M.j, b.y, M.k, b.z)>>

\* the full projective transform of the point b by M
Projective(M, b) ==
    LET w == Dot3(M.m, b.x, M.n, b.y, M.o, b.z) ++ M.p
        s == <<Linear(M, b)[1] ++ M.d, Linear(M, b)[2] ++ M.h,
               Linear(M, b)[3] ++ M.l>>
    IN  IF IsZero(w) THEN s ELSE <<s[1] // w, s[2] // w, s[3] // w>>

\* C16: M * P, P a Point3, applies the full projective transform with the
\* division by w = m*x + n*y + o*z + p when w # 0, so M * P = M.transform(P);
\* M * V, V a plain Vector3, applies the upper-left 3x3 part only.
C16_PointProjectiveVectorLinear ==
    Did("mul")
    => /\ rhs.cls = "Point3"
          => (res = Matrix4_transform(lhs, rhs)
              /\ res.cls = "Point3" /\ Coord(res) = Projective(lhs, rhs))
       /\ rhs.cls = "Vector3"
          => (res.cls = "Vector3" /\ Coord(res) = Linear(lhs, rhs))

\* C16, the failing case: w is neither 0 nor 1 and M * P is not divided by it
C16_PointNotDivided ==
    /\ Did("mul") /\ rhs.cls = "Point3"
    /\ Matrix4_w(lhs, rhs) = Q(2)
    /\ Coord(res) # Projective(lhs, rhs)
    /\ res # Matrix4_transform(lhs, rhs)

\* C16, what holds: M * V is the linear part; M * P is the affine image, and
\* equals M.transform(P) when w is 0 or 1; transform divides by w
C16_AffineOnly ==
    /\ Did("mul")
       => /\ rhs.cls = "Vector3"
             => (res.cls = "Vector3" /\ Coord(res) = Linear(lhs, rhs))
          /\ (rhs.cls = "Point3" /\ Matrix4_w(lhs, rhs) \in {Q(0), Q(1)})
             => (res = Matrix4_transform(lhs, rhs)
                 /\ Coord(res) = Projective(lhs, rhs))
    /\ Did("transform") => Coord(res) = Projective(lhs, rhs)

\* the translation column is ignored for a Vector3 and applied to a Point3
C16_TranslationIgnored ==
    /\ Did("mul") /\ rhs.cls = "Vector3"
    /\ ~CZero(<<lhs.d, lhs.h, lhs.l>>)
    /\ Coord(res) = Linear(lhs, rhs) /\ ~CZero(Coord(rhs))

\* C17: reading a Matrix4 as a sequence (m[0..15]) yields its 16 cells in
\* row-major order a..p, and Matrix4.new(*vals) followed by m[:] returns vals.
C17_RowMajorAndRoundTrip ==
    /\ Did("getitem") => res = Matrix4_getitem_by_rows(lhs)
    /\ Did("new") => Matrix4_getitem(res) = given

\* C17, the failing case: the matrix of the cells 1..16 reads 1, 5, 9, 13, ...
C17_ReadByColumns ==
    /\ Did("getitem") /\ lhs = M4([n \in 1 .. 16 |-> n])
    /\ res[1] = lhs.a /\ res[2] = lhs.e /\ res[3] = lhs.i /\ res[4] = lhs.m
    /\ res[2] = Q(5)
    /\ res # Matrix4_getitem_by_rows(lhs)

\* C17, what holds: new followed by [:] returns vals, and [:] reads the
\* cells column by column, a e i m / b f j n / c g k o / d h l p
C17_RoundTrip ==
    /\ Did("new") => Matrix4_getitem(res) = given
    /\ Did("getitem")
       => res = <<lhs.a, lhs.e, lhs.i, lhs.m, lhs.b, lhs.f, lhs.j, lhs.n,
                  lhs.c, lhs.g, lhs.k, lhs.o, lhs.d, lhs.h, lhs.l, lhs.p>>

\* sixteen different values went through new and came back
C17_CountedRoundTrip ==
    /\ Did("new") /\ given = Counted
    /\ Matrix4_getitem(res) = Counted /\ res.b = Q(5) /\ res.e = Q(2)

\* the determinant of the 3x3 matrix of the rows r1, r2, r3, by cofactors
Det3(r1, r2, r3) ==
    ((r1[1] ** Minor(r2[2], r3[3], r2[3], r3[2]))
     -- (r1[2] ** Minor(r2[1], r3[3], r2[3], r3[1])))
     ++ (r1[3] ** Minor(r2[1], r3[2], r2[2], r3[1]))

\* the determinant of a Matrix3 or Matrix4, expanded along the first row
Det(M) ==
    IF M.cls = "Matrix3" THEN
        Det3(<<M.a, M.b, M.c>>, <<M.e, M.f, M.g>>, <<M.i, M.j, M.k>>)
    ELSE
        (((M.a ** Det3(<<M.f, M.g, M.h>>, <<M.j, M.k, M.l>>, <<M.n, M.o, M.p>>))
          -- (M.b ** Det3(<<M.e, M.g, M.h>>, <<M.i, M.k, M.l>>, <<M.m, M.o, M.p>>)))
          ++ (M.c ** Det3(<<M.e, M.f, M.h>>, <<M.i, M.j, M.l>>, <<M.m, M.n, M.p>>)))
          -- (M.d ** Det3(<<M.e, M.f, M.g>>, <<M.i, M.j, M.k>>, <<M.m, M.n, M.o>>))

IdentityLike(M) == IF M.cls = "Matrix3" THEN Matrix3 ELSE Matrix4

\* C18: for every Matrix3 and Matrix4 with |det| < 0.001 (det = 0 too),
\* inverse returns the identity matrix, raises no error and leaves the
\* receiver unchanged.
C18_NearSingularGivesIdentity ==
    (Did("inverse") /\ TooSmall(Det(given[1])))
    => (res = IdentityLike(given[1]) /\ lhs = given[1])

\* C18, its case: a Matrix4 of determinant 1/2000 has the identity as inverse
C18_SmallDeterminant4 ==
    /\ Did("inverse") /\ lhs.cls = "Matrix4"
    /\ Det(lhs) = <<1, 2000>> /\ lhs # Matrix4
    /\ res = Matrix4

\* C18: so has a singular Matrix3 with no zero row
C18_Singular3 ==
    /\ Did("inverse") /\ lhs.cls = "Matrix3"
    /\ IsZero(Det(lhs)) /\ ~IsZero(lhs.a) /\ ~IsZero(lhs.f) /\ ~IsZero(lhs.k)
    /\ res = Matrix3

\* C18: so has a Matrix4 of a small negative determinant
C18_SmallNegative4 ==
    /\ Did("inverse") /\ lhs.cls = "Matrix4"
    /\ Det(lhs) = <<-1, 2000>> /\ res = Matrix4

\* |d| >= 0.01
AtLeastHundredth(d) == RLe(<<1, 100>>, d) \/ RLe(d, <<-1, 100>>)

\* C19: for every Matrix4 M with |det(M)| >= 0.01, M * inverse(M) and
\* inverse(M) * M both equal the identity.
C19_InverseIsInverse ==
    (Did("inverse") /\ lhs.cls = "Matrix4" /\ AtLeastHundredth(Det(lhs)))
    => /\ Matrix4_mul(lhs, res) = Matrix4
       /\ Matrix4_mul(res, lhs) = Matrix4

\* C19, its case: a matrix of determinant -1 with a projective row and a
\* translation column, and few zero cells, is inverted
C19_DenseInverted ==
    /\ Did("inverse") /\ lhs.cls = "Matrix4"
    /\ Det(lhs) = Q(-1)
    /\ ~CZero(<<lhs.m, lhs.n, lhs.o>>) /\ ~CZero(<<lhs.d, lhs.h, lhs.l>>)
    /\ Cardinality({n \in 1 .. 16 : IsZero(Matrix4_getitem(lhs)[n])}) <= 6
    /\ res # lhs
    /\ Matrix4_mul(lhs, res) = Matrix4 /\ Matrix4_mul(res, lhs) = Matrix4

\* C19: a matrix of determinant 2 is inverted
C19_ScaledInverted ==
    /\ Did("inverse") /\ lhs.cls = "Matrix4"
    /\ Det(lhs) = Q(2) /\ ~CZero(<<lhs.m, lhs.n, lhs.o>>)
    /\ Matrix4_mul(lhs, res) = Matrix4

\* the determinant the code computes is the determinant; the inverse of a
\* Matrix3 is its inverse too
C19_DeterminantExact ==
    Did("inverse")
    => IF lhs.cls = "Matrix4" THEN Matrix4_determinant(lhs) = Det(lhs)
       ELSE /\ Matrix3_determinant(lhs) = Det(lhs)
            /\ ~TooSmall(Det(lhs))
               => (Matrix3_mul(lhs, res) = Matrix3 /\ Matrix3_mul(res, lhs) = Matrix3)

\* the squared length of a vector
Norm2(v) == CDot(Coord(v), Coord(v))

\* the vector v / |v|, for v of rational length
Unit(v) ==
    IF Is2(v) THEN <<v.x // Sqrt(Norm2(v)), v.y // Sqrt(Norm2(v))>>
    ELSE <<v.x // Sqrt(Norm2(v)), v.y // Sqrt(Norm2(v)), v.z // Sqrt(Norm2(v))>>

\* a receiver whose length is rational
Measured == Len(given) = 1 /\ ~IsIrr(Sqrt(Norm2(given[1])))

\* v is what normalizing the vector u gives: zero for zero, else u / |u|,
\* of length 1 and left as it is by another normalize()
NormalOf(v, u) ==
    IF CZero(Coord(u)) THEN CZero(Coord(v))
    ELSE /\ Coord(v) = Unit(u)
         /\ Norm2(v) = Q(1)
         /\ normalize(v) = v

\* C20: for Vector2 and Vector3, normalized() returns a vector equal to what
\* the in-place normalize() leaves in the receiver and does not modify its
\* receiver; on the zero vector both give zero; for a non-zero vector the
\* result has magnitude 1 and normalizing it again changes nothing.
C20_NormalizedIsNormalize ==
    /\ (Did("normalize") /\ Measured) => NormalOf(lhs, given[1])
    /\ (Did("normalized") /\ Measured)
       => /\ lhs = given[1]
          /\ NormalOf(res, given[1])
          /\ Coord(res) = Coord(normalize(given[1]))

\* C20, the failing case: Vector3(1, 2, 2).normalized() is (1, 2, 2)
C20_Vector3ReturnedUnscaled ==
    /\ Did("normalized") /\ given[1] = V3(1, 2, 2)
    /\ res = V3(1, 2, 2) /\ Norm2(res) = Q(9)
    /\ Coord(normalize(given[1])) = <<<<1, 3>>, <<2, 3>>, <<2, 3>>>>

\* C20, what holds: all of it for Vector2; for Vector3 normalize() is right,
\* normalized() leaves the receiver alone and returns zero for zero
C20_Vector2AndInPlace ==
    /\ (Did("normalize") /\ Measured) => NormalOf(lhs, given[1])
    /\ (Did("normalized") /\ Measured)
       => /\ lhs = given[1]
          /\ (Is2(given[1]) \/ CZero(Coord(given[1])))
             => (NormalOf(res, given[1])
                 /\ Coord(res) = Coord(normalize(given[1])))

\* Vector2(3, 4).normalized() is (3/5, 4/5) and the receiver is (3, 4)
C20_Vector2Normalized ==
    /\ Did("normalized") /\ given[1] = V2(3, 4)
    /\ res = Vector2(<<3, 5>>, <<4, 5>>) /\ lhs = V2(3, 4)

---------------------------------------------------------------------------
(* Line-line, round-round and plane claims.                                *)

Bounded(L) == L.cls \in {"Ray2", "LineSegment2", "Ray3", "LineSegment3"}

\* two lines of one dimension are parallel
Parallel(A, B) ==
    IF IsLine2(A) THEN IsZero(Det2(A, B))
    ELSE CZero(CCross(Coord(A.v), Coord(B.v)))

\* connect was called both ways on two non-parallel lines of the Line3
\* family of which one at least is a Ray3 or a LineSegment3
Line3Pair ==
    /\ pc = "done" /\ op = "connect"
    /\ IsLine3(lhs) /\ IsLine3(rhs)
    /\ ~Parallel(lhs, rhs)
    /\ Bounded(lhs) \/ Bounded(rhs)
    /\ IsSegment(res) /\ IsSegment(rev)

\* C21: for two non-parallel Line3-family operands of which one at least is
\* a Ray3 or a LineSegment3, _connect_line3_line3(A, B) and
\* _connect_line3_line3(B, A) select the same point on A and the same point
\* on B, also when a parameter is clamped.
C21_Line3PairSymmetric ==
    Line3Pair => (EndA(res) = EndB(rev) /\ EndB(res) = EndA(rev))

\* the parameter on A of the point of the line A nearest to the line B
\* (the lines are not parallel)
NearU(A, B) ==
    ((CDot(Coord(A.v), Coord(B.v)) ** CDot(Coord(B.v), CSub(Coord(A.p), Coord(B.p))))
     -- (CDot(Coord(B.v), Coord(B.v)) ** CDot(Coord(A.v), CSub(Coord(A.p), Coord(B.p)))))
    // ((CDot(Coord(A.v), Coord(A.v)) ** CDot(Coord(B.v), Coord(B.v)))
        -- (CDot(Coord(A.v), Coord(B.v)) ** CDot(Coord(A.v), Coord(B.v))))

\* neither parameter has to be clamped
Unclamped(A, B) == _u_in(A, NearU(A, B)) /\ _u_in(B, NearU(B, A))

\* C21, the failing case: a Line3 against a LineSegment3 whose parameter is
\* clamped; the point chosen on the Line3 depends on the order
C21_PointOnLineDepends ==
    /\ Line3Pair /\ lhs.cls = "Line3" /\ rhs.cls = "LineSegment3"
    /\ ~Unclamped(lhs, rhs)
    /\ EndB(res) = EndA(rev)
    /\ EndA(res) = CAt(lhs, NearU(lhs, rhs))
    /\ EndB(rev) = Foot(rev.p, lhs)
    /\ EndA(res) # EndB(rev)

\* C21, what holds: when no parameter is clamped both orders select the
\* nearest points of the two lines
C21_UnclampedSymmetric ==
    (Line3Pair /\ Unclamped(lhs, rhs))
    => /\ EndA(res) = EndB(rev) /\ EndB(res) = EndA(rev)
       /\ EndA(res) = CAt(lhs, NearU(lhs, rhs))
       /\ EndB(res) = CAt(rhs, NearU(rhs, lhs))

\* an unclamped pair with a bounded operand is drawn
C21_UnclampedDrawn ==
    /\ Line3Pair /\ Unclamped(lhs, rhs) /\ rhs.cls = "LineSegment3"
    /\ EndA(res) # EndB(res)

\* connect was called on two parallel lines of one dimension
ParallelPair ==
    /\ Called /\ op = "connect"
    /\ (IsLine2(lhs) /\ IsLine2(rhs)) \/ (IsLine3(lhs) /\ IsLine3(rhs))
    /\ Parallel(lhs, rhs)

\* c joins the base point of one of A, B (of a bounded one if there is one)
\* to its clamped projection on the other, from A to B
JoinsBase(c, A, B) ==
    \/ /\ Bounded(A) \/ ~Bounded(B)
       /\ EndA(c) = Coord(A.p) /\ EndB(c) = Foot(A.p, B)
    \/ /\ Bounded(B) \/ ~Bounded(A)
       /\ EndB(c) = Coord(B.p) /\ EndA(c) = Foot(B.p, A)

\* C22: when two line-family operands are parallel, connect returns a
\* LineSegment of the matching dimension, oriented from the receiver to the
\* argument, joining the base endpoint of a bounded operand (or, when neither
\* is bounded, the base point of one line) to its clamped projection on the
\* other operand.
C22_ParallelConnect ==
    ParallelPair
    => /\ res.cls = (IF IsLine2(lhs) THEN "LineSegment2" ELSE "LineSegment3")
       /\ JoinsBase(res, lhs, rhs)

\* C22, the failing case: in 2D, with a Ray2 or LineSegment2 as argument, the
\* segment from B.p is unpacked as a pair and connect raises TypeError
C22_Parallel2Raises ==
    /\ ParallelPair /\ lhs.cls = "Line2" /\ rhs.cls = "LineSegment2"
    /\ Foot(rhs.p, lhs) # Coord(rhs.p)
    /\ IsError(res) /\ res.exc = "TypeError"

\* C22, what holds: in 3D the claim; in 2D, with a plain Line2 as argument,
\* the segment from A.p to its projection unless A.p lies on B
C22_Parallel3 ==
    ParallelPair
    => /\ IsLine3(lhs) => (res.cls = "LineSegment3" /\ JoinsBase(res, lhs, rhs))
       /\ (rhs.cls = "Line2" /\ Foot(lhs.p, rhs) # Coord(lhs.p))
          => (res.cls = "LineSegment2" /\ JoinsBase(res, lhs, rhs))

\* a Ray3 against a parallel LineSegment3: from the foot on the ray to B.p
C22_Parallel3Swapped ==
    /\ ParallelPair /\ lhs.cls = "Ray3" /\ rhs.cls = "LineSegment3"
    /\ EndB(res) = Coord(rhs.p) /\ EndA(res) = Coord(lhs.p)
    /\ Foot(rhs.p, lhs) # CAt(lhs, ProjU(rhs.p, lhs))

\* connect was called on two circles or two spheres
RoundPair ==
    /\ Called /\ op = "connect"
    /\ how.alg \in {"_connect_circle_circle", "_connect_sphere_sphere"}

\* from the centre of the receiver to the centre of the argument
CentreOffset == CSub(Coord(rhs.c), Coord(lhs.c))

\* the distance between the centres of the two round operands (rational by
\* RoundOK)
CentreDistance == Sqrt(CDot(CentreOffset, CentreOffset))

\* the three conditions of the sign selection
CentreBInsideA(ra, rb, d) == RLe(rb, ra) /\ RLt(d, ra)

CentreAInsideB(ra, rb, d) == RLt(ra, rb) /\ RLt(d, rb)

Apart(ra, rb, d) == RLe(ra, d) /\ RLe(rb, d)

\* how many of the three conditions hold
BranchesTaken(ra, rb, d) ==
    Cardinality({n \in 1 .. 3 :
                    \/ n = 1 /\ CentreBInsideA(ra, rb, d)
                    \/ n = 2 /\ CentreAInsideB(ra, rb, d)
                    \/ n = 3 /\ Apart(ra, rb, d)})

C23_ConcentricPoints ==
    /\ RoundPair /\ lhs.cls = "Circle" /\ IsZero(CentreDistance)
    /\ IsZero(lhs.r) /\ IsZero(rhs.r)
    /\ Apart(how.a.r, how.b.r, CentreDistance)
    /\ IsError(res) /\ res.msg = "Line has zero-length vector"

\* connect was called on a Point3 with a Plane as argument
PointPlane ==
    /\ Called /\ op = "connect"
    /\ lhs.cls = "Point3" /\ rhs.cls = "Plane"

\* the coordinates q are on the plane P: n.q = k
COnPlane(P, q) == CDot(Coord(P.n), q) = P.k

\* the offset w is parallel to the normal of P
AlongNormal(P, w) == CZero(CCross(w, Coord(P.n)))

\* the normal of P has length 1
UnitNormal(P) == CDot(Coord(P.n), Coord(P.n)) = Q(1)

\* C24 as stated: for every Point3 P and Plane Q (constructed by any of the
\* three forms), P.connect(Q) returns the segment from P to its orthogonal
\* projection on Q: the second endpoint q satisfies n.q = k and q - P is
\* parallel to the normal n.
C24_FootOnPlane ==
    PointPlane
    => /\ IsSegment(res)
       /\ EndA(res) = Coord(lhs)
       /\ COnPlane(rhs, EndB(res))
       /\ AlongNormal(rhs, CSub(EndB(res), EndA(res)))

\* C24, the part that holds: the segment starts at P and runs along the
\* normal, and its second endpoint is on the plane whenever the stored normal
\* has unit length (always so for the three-point form).
C24_FootOnUnitPlane ==
    PointPlane
    => /\ IsSegment(res)
       /\ EndA(res) = Coord(lhs)
       /\ AlongNormal(rhs, CSub(EndB(res), EndA(res)))
       /\ UnitNormal(rhs) => COnPlane(rhs, EndB(res))

\* C24, the failing case: the plane keeps a normal of length 2 and the second
\* endpoint is off the plane
C24_FootOffPlane ==
    /\ PointPlane /\ IsSegment(res)
    /\ Coord(rhs.n) = <<Q(0), Q(2), Q(0)>>
    /\ ~COnPlane(rhs, EndB(res))

\* a point off a plane of unit normal is connected to its foot
C24_FootReached ==
    /\ PointPlane /\ IsSegment(res) /\ UnitNormal(rhs)
    /\ ~COnPlane(rhs, EndA(res))
    /\ COnPlane(rhs, EndB(res))

\* intersect was called on two Planes; how.a and how.b are the A and B of
\* _intersect_plane_plane
PlanePair ==
    /\ Called /\ op = "intersect"
    /\ lhs.cls = "Plane" /\ rhs.cls = "Plane"

\* n1.n1 * n2.n2 - (n1.n2)^2 = 0
NormalsParallel(A, B) ==
    IsZero((CDot(Coord(A.n), Coord(A.n)) ** CDot(Coord(B.n), Coord(B.n)))
           -- (CDot(Coord(A.n), Coord(B.n)) ** CDot(Coord(A.n), Coord(B.n))))

C25_PlanesParallel ==
    /\ PlanePair /\ res = None
    /\ NormalsParallel(lhs, rhs) /\ lhs # rhs

---------------------------------------------------------------------------
(* Quaternion: conjugated() and the spherical interpolation                *)
(* new_interpolate(q1, q2, t).                                             *)

\* Quaternion.__init__
Quaternion(w, x, y, z) == [cls |-> "Quaternion", w |-> w, x |-> x, y |-> y, z |-> z]

\* Quaternion.conjugated
Quaternion_conjugated(q) == Quaternion(q.w, RNeg(q.x), RNeg(q.y), RNeg(q.z))

\* math.acos of a number outside [-1, 1]
ValueError == Error("ValueError", "math domain error", {})

\* costheta = q1.w * q2.w + q1.x * q2.x + q1.y * q2.y + q1.z * q2.z
Dot4Q(q1, q2) ==
    (((q1.w ** q2.w) ++ (q1.x ** q2.x)) ++ (q1.y ** q2.y)) ++ (q1.z ** q2.z)

\* abs(math.acos(c)) < 0.01 for 0 <= c <= 1, that is c > cos(0.01);
\* cos(0.01) = 0.99995000042 lies just above 19999/20000 and no drawn cosine
\* lies between the two
ThetaSmall(c) == RLt(Rat(19999, 20000), c)

\* abs(math.sqrt(1.0 - c * c)) < 0.01
SinThetaSmall(c) == RLt(Q(1) -- (c ** c), Rat(1, 10000))

\* ratio1, ratio2 = sin((1 - t) * theta) / sintheta, sin(t * theta) / sintheta
\* with theta = acos(c), sintheta = sin(theta): 1, 0 at t = 0; 0, 1 at t = 1;
\* both 1 / (2 * cos(theta / 2)) at t = 1/2, cos(theta / 2) = sqrt((1 + c) / 2)
Ratios(t, c) ==
    IF t = Q(0) THEN <<Q(1), Q(0)>>
    ELSE IF t = Q(1) THEN <<Q(0), Q(1)>>
    ELSE IF t = Rat(1, 2)
         THEN <<Q(1) // (Q(2) ** Sqrt((Q(1) ++ c) // Q(2))),
                Q(1) // (Q(2) ** Sqrt((Q(1) ++ c) // Q(2)))>>
    ELSE <<Irr, Irr>>

\* q1 * r1 + q2 * r2, component by component
Blend(q1, r1, q2, r2) ==
    Quaternion((q1.w ** r1) ++ (q2.w ** r2), (q1.x ** r1) ++ (q2.x ** r2),
               (q1.y ** r1) ++ (q2.y ** r2), (q1.z ** r1) ++ (q2.z ** r2))

\* the part of new_interpolate after the cosine is fixed: q1 is the local q1,
\* c the costheta given to math.acos
Interpolated(q1, q2, t, c) ==
    IF RLt(Q(1), c) THEN ValueError
    ELSE IF ThetaSmall(c) THEN Quaternion(q2.w, q2.x, q2.y, q2.z)
    ELSE IF SinThetaSmall(c) THEN Blend(q1, Rat(1, 2), q2, Rat(1, 2))
    ELSE Blend(q1, Ratios(t, c)[1], q2, Ratios(t, c)[2])

\* the local q1 when math.acos is called
Interpolate_q1(q1, q2) ==
    IF RLt(Dot4Q(q1, q2), Q(0)) THEN Quaternion_conjugated(q1) ELSE q1

\* the costheta given to math.acos
Interpolate_costheta(q1, q2) ==
    IF RLt(Dot4Q(q1, q2), Q(0)) THEN RNeg(Dot4Q(q1, q2))
    ELSE IF RLt(Q(1), Dot4Q(q1, q2)) THEN Q(1)
    ELSE Dot4Q(q1, q2)

\* Quaternion.new_interpolate
Quaternion_new_interpolate(q1, q2, t) ==
    IF q1.cls # "Quaternion" \/ q2.cls # "Quaternion" THEN AssertionError
    ELSE Interpolated(Interpolate_q1(q1, q2), q2, t, Interpolate_costheta(q1, q2))

\* the drawn quaternions: small integer components, a unit quaternion of
\* rational components, one of equal components and two of norm 2
IntQuats ==
    {Quaternion(Q(w), Q(x), Q(y), Q(0)) :
        w \in -MaxQuat .. MaxQuat, x \in -MaxQuat .. MaxQuat, y \in 0 .. MaxQuat}

Quats ==
    IntQuats
    \cup {Quaternion(Rat(7, 25), Rat(24, 25), Q(0), Q(0)),
          Quaternion(Rat(1, 2), Rat(1, 2), Rat(1, 2), Rat(1, 2)),
          Quaternion(Q(2), Q(0), Q(0), Q(0)),
          Quaternion(Q(-2), Q(0), Q(0), Q(0))}

\* a quaternion almost equal to the identity: with the identity its cosine is
\* below cos(0.01) while the sine is below 0.01
NearIdentity == Quaternion(Rat(19999, 20000), Q(0), Q(0), Q(0))

Times == {Q(0), Rat(1, 2), Q(1)}

InterpolateArgs ==
    (Quats \X Quats \X Times)
    \cup (IntQuats \X {NearIdentity} \X Times)
    \cup ({NearIdentity} \X IntQuats \X Times)
    \cup {<<V3(1, 0, 0), Quaternion(Q(1), Q(0), Q(0), Q(0)), Q(0)>>}

\* Quaternion.new_interpolate(q1, q2, t): how keeps the local q1 and the
\* costheta with which math.acos is called
NewInterpolate ==
    \E a \in WhenIdle(InterpolateArgs) :
        /\ pc' = "returned"
        /\ op' = "new_interpolate"
        /\ given' = a
        /\ lhs' = a[1]
        /\ rhs' = a[2]
        /\ how' = IF a[1].cls = "Quaternion"
                  THEN [cls |-> "acos", q1 |-> Interpolate_q1(a[1], a[2]),
                        costheta |-> Interpolate_costheta(a[1], a[2])]
                  ELSE Unset
        /\ res' = Quaternion_new_interpolate(a[1], a[2], a[3])
        /\ UNCHANGED <<howrev, rev>>

\* q.conjugated(): reads the receiver and returns a new quaternion
Conjugated ==
    \E q \in WhenIdle(Quats \cup {NearIdentity}) :
        /\ pc' = "returned"
        /\ op' = "conjugated"
        /\ given' = <<q>>
        /\ lhs' = q
        /\ res' = Quaternion_conjugated(q)
        /\ UNCHANGED <<rhs, how, howrev, rev>>

NextQuat == NewInterpolate \/ Conjugated \/ Reset

SpecQuat == Init /\ [][NextQuat]_vars

\* new_interpolate was called on two quaternions
Interpolating == Did("new_interpolate") /\ how.cls = "acos"

\* the negation of q: all four components sign-flipped
Negation(q) == Quaternion(RNeg(q.w), RNeg(q.x), RNeg(q.y), RNeg(q.z))

\* C26 as stated: in new_interpolate(q1, q2, t), when the 4-component dot
\* product of q1 and q2 is negative, one quaternion is replaced by its
\* negation (all four components w, x, y, z sign-flipped) before
\* interpolating, and the cosine used for acos is never greater than 1 on any
\* path.
C26_NegatedAndClamped ==
    Interpolating
    => /\ RLt(Dot4Q(given[1], given[2]), Q(0)) => how.q1 = Negation(given[1])
       /\ RLe(how.costheta, Q(1))

\* C26, the part that holds: for a non-negative dot product q1 is kept and the
\* cosine is min(dot, 1); for a negative one q1 is replaced by its conjugate
\* (x, y, z sign-flipped, w kept) and the cosine is -dot, at most 1 only when
\* dot >= -1; math.acos raises exactly when the cosine exceeds 1; neither
\* argument is modified.
C26_ConjugatedAndNegatedCosine ==
    Interpolating
    => /\ lhs = given[1] /\ rhs = given[2]
       /\ IF RLt(Dot4Q(given[1], given[2]), Q(0))
          THEN /\ how.q1 = Quaternion(given[1].w, RNeg(given[1].x),
                                      RNeg(given[1].y), RNeg(given[1].z))
               /\ how.costheta = RNeg(Dot4Q(given[1], given[2]))
          ELSE /\ how.q1 = given[1]
               /\ how.costheta = RMin(Dot4Q(given[1], given[2]), Q(1))
       /\ RLe(Q(0), how.costheta)
       /\ (res = ValueError) <=> RLt(Q(1), how.costheta)

\* C26, the failing case: the dot product is negative, q1 has a real part and
\* the quaternion interpolated from is not -q1
C26_ConjugateNotNegation ==
    /\ Interpolating
    /\ RLt(Dot4Q(given[1], given[2]), Q(0))
    /\ ~IsZero(given[1].w)
    /\ how.q1 # Negation(given[1])
    /\ res.cls = "Quaternion"

\* a dot product below -1 gives math.acos a cosine above 1
C26_CosineAboveOne ==
    /\ Interpolating
    /\ RLt(Q(1), how.costheta)
    /\ res = ValueError

\* a dot product above 1 is clamped
C26_CosineClamped ==
    /\ Interpolating
    /\ RLt(Q(1), Dot4Q(given[1], given[2]))
    /\ how.costheta = Q(1)
    /\ res = given[2]

\* the sine is near zero while the angle is not: the midpoint is returned
C26_LinearFallback ==
    /\ Interpolating
    /\ given[1] = NearIdentity
    /\ ~ThetaSmall(how.costheta) /\ SinThetaSmall(how.costheta)
    /\ res = Quaternion(Rat(39999, 40000), Q(0), Q(0), Q(0))

\* halfway between two unit quaternions at an angle of cosine 7/25: both
\* ratios are 5/8
C26_Halfway ==
    /\ Interpolating
    /\ given[3] = Rat(1, 2) /\ how.costheta = Rat(7, 25)
    /\ res = Quaternion(Rat(4, 5), Rat(3, 5), Q(0), Q(0))

---------------------------------------------------------------------------
(* Line against circle and sphere: where the returned points lie.          *)

\* intersect ran the line-circle or the line-sphere algorithm and returned a
\* Point or a segment
LineRoundResult ==
    /\ Called /\ op = "intersect" /\ CallsLineRound(how)
    /\ IsPoint(res) \/ IsSegment(res)

\* the points intersect returned: the point itself or the two endpoints
ResultPoints(c) == IF IsPoint(c) THEN {Coord(c)} ELSE Ends(c)

\* the coordinates q are a point of L within its valid parameter range
OnWithinRange(L, q) ==
    /\ _u_in(L, CDot(CSub(q, Coord(L.p)), Coord(L.v)) // CDot(Coord(L.v), Coord(L.v)))
    /\ q = CAt(L, CDot(CSub(q, Coord(L.p)), Coord(L.v)) // CDot(Coord(L.v), Coord(L.v)))

\* the coordinates q are at distance at most r from the centre of S
WithinRadius(S, q) == RLe(CDot(CSub(q, Coord(S.c)), CSub(q, Coord(S.c))), S.r ** S.r)

\* the supporting line of the Ray or LineSegment L crosses S while L itself
\* lies wholly outside: both roots before its start, or both past the end of
\* a segment
WhollyOutside(L, S) ==
    /\ Solvable(L, S)
    /\ \/ L.cls # "Line2" /\ L.cls # "Line3"
          /\ RLt(RootPlus(L, S), Q(0)) /\ RLt(RootMinus(L, S), Q(0))
       \/ IsSegment(L)
          /\ RLt(Q(1), RootPlus(L, S)) /\ RLt(Q(1), RootMinus(L, S))

\* C27 as stated: every Point or segment endpoint returned by intersect
\* between a Line2-family primitive L and a Circle C (and between a
\* Line3-family primitive and a Sphere) lies on L within its valid parameter
\* range and at distance at most r from the centre; in particular a Ray or
\* LineSegment that lies wholly outside the circle, while its supporting
\* infinite line crosses it, yields no relation.
C27_ResultOnLineInsideRound ==
    /\ LineRoundResult
       => \A q \in ResultPoints(res) :
              OnWithinRange(how.a, q) /\ WithinRadius(how.b, q)
    /\ (Called /\ op = "intersect" /\ CallsLineRound(how)
          /\ WhollyOutside(how.a, how.b))
       => res = None

\* C27, the part that holds: every returned point lies on L within its valid
\* parameter range, and at distance at most r from the centre unless L lies
\* wholly outside.
C27_ResultOnLine ==
    LineRoundResult
    => \A q \in ResultPoints(res) :
           /\ OnWithinRange(how.a, q)
           /\ ~WhollyOutside(how.a, how.b) => WithinRadius(how.b, q)

\* C27, the failing case: a LineSegment2 wholly outside the circle, whose line
\* crosses it, gives its own end point, which is farther than r from the
\* centre
C27_EndPointOutside ==
    /\ LineRoundResult
    /\ lhs.cls = "LineSegment2" /\ rhs.cls = "Circle"
    /\ WhollyOutside(lhs, rhs)
    /\ res.cls = "Point2"
    /\ ~WithinRadius(rhs, Coord(res))

\* a Ray3 that starts inside the sphere: the chord is cut at its start
C27_CutChord ==
    /\ LineRoundResult
    /\ lhs.cls = "Ray3" /\ rhs.cls = "Sphere"
    /\ RLt(RootMinus(lhs, rhs), Q(0)) /\ RLt(Q(0), RootPlus(lhs, rhs))
    /\ Ends(res) = {Coord(lhs.p), CAt(lhs, RootPlus(lhs, rhs))}

---------------------------------------------------------------------------
(* Two circles or two spheres whose centres are outside each other.        *)

\* connect or distance was called on two circles or two spheres
RoundCall(o) ==
    /\ Called /\ op = o
    /\ how.alg \in {"_connect_circle_circle", "_connect_sphere_sphere"}

\* max(A.r, B.r) <= d < A.r + B.r: the boundaries overlap and neither centre
\* lies inside the other
Overlapping ==
    /\ Apart(lhs.r, rhs.r, CentreDistance)
    /\ RLt(CentreDistance, lhs.r ++ rhs.r)

\* d >= A.r + B.r
Separated == RLe(lhs.r ++ rhs.r, CentreDistance)

\* d - A.r - B.r
Gap == (CentreDistance -- lhs.r) -- rhs.r

\* C28 as stated: for two circles (or spheres) whose boundaries overlap
\* without either centre lying inside the other (max(A.r, B.r) <= d <
\* A.r + B.r), connect returns a zero-length segment and distance is 0; for
\* separated circles (d >= A.r + B.r) the connect segment has length
\* d - A.r - B.r.
C28_OverlapTouches ==
    /\ (RoundCall("connect") /\ Overlapping)
       => (IsSegment(res) /\ EndA(res) = EndB(res))
    /\ (RoundCall("distance") /\ Overlapping)
       => res = Float(Q(0))
    /\ (RoundCall("connect") /\ Separated)
       => (IsSegment(res) /\ length(res) = Gap)

\* C28, the part that holds: when neither centre lies inside the other the
\* connect segment has length |d - A.r - B.r| (two tangent circles excepted,
\* whose zero-length LineSegment2 is rejected), which for separated circles
\* and spheres is d - A.r - B.r, and the distance of two circles is that
\* length.
C28_LengthIsGap ==
    /\ (RoundCall("connect") /\ Apart(lhs.r, rhs.r, CentreDistance)
          /\ (lhs.cls = "Sphere" \/ ~IsZero(Gap)))
       => /\ IsSegment(res)
          /\ length(res) = IF Separated THEN Gap ELSE RNeg(Gap)
    /\ (RoundCall("distance") /\ lhs.cls = "Circle"
          /\ Apart(lhs.r, rhs.r, CentreDistance) /\ ~IsZero(Gap))
       => res = Float(IF Separated THEN Gap ELSE RNeg(Gap))

\* C28, the failing case: two overlapping circles are connected by a segment
\* of length A.r + B.r - d > 0
C28_OverlapConnected ==
    /\ RoundCall("connect") /\ lhs.cls = "Circle" /\ Overlapping
    /\ IsSegment(res) /\ EndA(res) # EndB(res)
    /\ length(res) = (lhs.r ++ rhs.r) -- CentreDistance

\* the distance of two overlapping circles is not 0
C28_OverlapDistance ==
    /\ RoundCall("distance") /\ lhs.cls = "Circle" /\ Overlapping
    /\ res.cls = "float" /\ RLt(Q(0), res.f)

\* two separated spheres are connected across their gap
C28_SeparatedSpheres ==
    /\ RoundCall("connect") /\ lhs.cls = "Sphere" /\ Separated
    /\ ~IsZero(Gap)
    /\ IsSegment(res) /\ length(res) = Gap

---------------------------------------------------------------------------
(* Two LineSegment2 that are not parallel.                                 *)

\* connect was called on two LineSegment2 that are not parallel
SegmentPair ==
    /\ Called /\ op = "connect"
    /\ lhs.cls = "LineSegment2" /\ rhs.cls = "LineSegment2"
    /\ ~Parallel(lhs, rhs)

\* the squared distance of two coordinate tuples
CDist2(s, t) == CDot(CSub(s, t), CSub(s, t))

\* the two segments cross: their lines meet within both
Crossing(A, B) == _u_in(A, MeetU(A, B)) /\ _u_in(B, MeetU(B, A))

\* the squared distances from each end of one segment to the other segment;
\* two segments that do not cross are nearest at an end of one of them
EndGaps(A, B) ==
    {CDist2(Coord(A.p), Foot(A.p, B)), CDist2(Coord(Line2_p2(A)), Foot(Line2_p2(A), B)),
     CDist2(Coord(B.p), Foot(B.p, A)), CDist2(Coord(Line2_p2(B)), Foot(Line2_p2(B), A))}

\* some pair of points, one on A and one on B, is closer than g (squared)
CloserThan(A, B, g) ==
    \/ Crossing(A, B) /\ RLt(Q(0), g)
    \/ \E e \in EndGaps(A, B) : RLt(e, g)

\* C29 as stated: for two non-parallel LineSegment2 operands A and B, the
\* segment returned by A.connect(B) is a shortest connection: no pair of
\* points, one on A and one on B, is strictly closer together than the two
\* returned endpoints (also when one or both parameters were clamped).
C29_ShortestConnection ==
    SegmentPair
    => /\ IsSegment(res)
       /\ ~CloserThan(lhs, rhs, CDist2(EndA(res), EndB(res)))

\* C29, the part that holds: unless the segments cross (the zero-length
\* result is then rejected), a segment is returned from a point of A to a
\* point of B, each the point of the meeting parameter clamped to its segment.
C29_ClampedMeetingPoints ==
    SegmentPair
    => IF Crossing(lhs, rhs)
       THEN IsError(res) /\ res.msg = "Line has zero-length vector"
       ELSE /\ IsSegment(res)
            /\ EndA(res) = CAt(lhs, NearestU(lhs, MeetU(lhs, rhs)))
            /\ EndB(res) = CAt(rhs, NearestU(rhs, MeetU(rhs, lhs)))

\* C29, the failing case: a segment is returned although an end of one
\* operand is closer to the other operand than the returned endpoints are
C29_NotShortest ==
    /\ SegmentPair /\ IsSegment(res)
    /\ ~Crossing(lhs, rhs)
    /\ \E e \in EndGaps(lhs, rhs) : RLt(e, CDist2(EndA(res), EndB(res)))

\* both parameters clamped and the result is a shortest connection
C29_ShortestReached ==
    /\ SegmentPair /\ IsSegment(res)
    /\ ~_u_in(lhs, MeetU(lhs, rhs)) /\ ~_u_in(rhs, MeetU(rhs, lhs))
    /\ ~CloserThan(lhs, rhs, CDist2(EndA(res), EndB(res)))

---------------------------------------------------------------------------
(* The in-place transform mutators of Matrix3 and Matrix4.  A matrix       *)
(* object is its identity and its cells; an angle is given by its cosine   *)
(* and sine.                                                               *)

Obj(id, M) == [cls |-> "object", id |-> id, val |-> M]

Angle(c, s) == [cls |-> "angle", cos |-> c, sin |-> s]

\* Matrix3.new_scale
Matrix3_new_scale(x, y) == [Matrix3 EXCEPT !.a = x, !.f = y]

\* Matrix3.new_translate
Matrix3_new_translate(x, y) == [Matrix3 EXCEPT !.c = x, !.g = y]

\* Matrix3.new_rotate
Matrix3_new_rotate(angle) ==
    [Matrix3 EXCEPT !.a = angle.cos, !.f = angle.cos,
                    !.b = RNeg(angle.sin), !.e = angle.sin]

\* Matrix4.new_scale
Matrix4_new_scale(x, y, z) == [Matrix4 EXCEPT !.a = x, !.f = y, !.k = z]

\* Matrix4.new_translate
Matrix4_new_translate(x, y, z) == [Matrix4 EXCEPT !.d = x, !.h = y, !.l = z]

\* Matrix4.new_rotate_x
Matrix4_new_rotate_x(angle) ==
    [Matrix4 EXCEPT !.f = angle.cos, !.k = angle.cos,
                    !.g = RNeg(angle.sin), !.j = angle.sin]

\* Matrix4.new_rotate_y
Matrix4_new_rotate_y(angle) ==
    [Matrix4 EXCEPT !.a = angle.cos, !.k = angle.cos,
                    !.c = angle.sin, !.i = RNeg(angle.sin)]

\* Matrix4.new_rotate_z
Matrix4_new_rotate_z(angle) ==
    [Matrix4 EXCEPT !.a = angle.cos, !.f = angle.cos,
                    !.b = RNeg(angle.sin), !.e = angle.sin]

\* the cells of Matrix4.new_rotate_axis for the vector (x, y, z), the sine s,
\* the cosine c and c1 = 1 - c
Matrix4_rotate_axis_cells(x, y, z, s, c, c1) ==
    [Matrix4 EXCEPT !.a = ((x ** x) ** c1) ++ c,
                    !.b = ((x ** y) ** c1) -- (z ** s),
                    !.c = ((x ** z) ** c1) ++ (y ** s),
                    !.e = ((y ** x) ** c1) ++ (z ** s),
                    !.f = ((y ** y) ** c1) ++ c,
                    !.g = ((y ** z) ** c1) -- (x ** s),
                    !.i = ((x ** z) ** c1) -- (y ** s),
                    !.j = ((y ** z) ** c1) ++ (x ** s),
                    !.k = ((z ** z) ** c1) ++ c]

\* Matrix4.new_rotate_axis: vector = axis.normalized()
Matrix4_new_rotate_axis(angle, axis) ==
    Matrix4_rotate_axis_cells(Vector3_normalized(axis).x, Vector3_normalized(axis).y,
                              Vector3_normalized(axis).z,
                              angle.sin, angle.cos, Q(1) -- angle.cos)

\* Matrix4.new_rotate_euler
Matrix4_new_rotate_euler(heading, attitude, bank) ==
    LET ch == heading.cos
        sh == heading.sin
        ca == attitude.cos
        sa == attitude.sin
        cb == bank.cos
        sb == bank.sin
    IN  [Matrix4 EXCEPT !.a = ch ** ca,
                        !.b = (sh ** sb) -- ((ch ** sa) ** cb),
                        !.c = ((ch ** sa) ** sb) ++ (sh ** cb),
                        !.e = sa,
                        !.f = ca ** cb,
                        !.g = RNeg(ca) ** sb,
                        !.i = RNeg(sh) ** ca,
                        !.j = ((sh ** sa) ** cb) ++ (ch ** sb),
                        !.k = ((RNeg(sh) ** sa) ** sb) ++ (ch ** cb)]

\* Matrix4.new_rotate_triple_axis
Matrix4_new_rotate_triple_axis(x, y, z) ==
    [Matrix4 EXCEPT !.a = x.x, !.b = y.x, !.c = z.x,
                    !.e = x.y, !.f = y.y, !.g = z.y,
                    !.i = x.z, !.j = y.z, !.k = z.z]

\* Matrix3.__imul__: the cells written into self
Matrix3___imul__(A, B) ==
    [cls |-> "Matrix3",
     a |-> Dot3(A.a, B.a, A.b, B.e, A.c, B.i),
     b |-> Dot3(A.a, B.b, A.b, B.f, A.c, B.j),
     c |-> Dot3(A.a, B.c, A.b, B.g, A.c, B.k),
     e |-> Dot3(A.e, B.a, A.f, B.e, A.g, B.i),
     f |-> Dot3(A.e, B.b, A.f, B.f, A.g, B.j),
     g |-> Dot3(A.e, B.c, A.f, B.g, A.g, B.k),
     i |-> Dot3(A.i, B.a, A.j, B.e, A.k, B.i),
     j |-> Dot3(A.i, B.b, A.j, B.f, A.k, B.j),
     k |-> Dot3(A.i, B.c, A.j, B.g, A.k, B.k)]

\* Matrix4.__imul__: the cells written into self
Matrix4___imul__(A, B) ==
    [cls |-> "Matrix4",
     a |-> Dot4(A.a, B.a, A.b, B.e, A.c, B.i, A.d, B.m),
     b |-> Dot4(A.a, B.b, A.b, B.f, A.c, B.j, A.d, B.n),
     c |-> Dot4(A.a, B.c, A.b, B.g, A.c, B.k, A.d, B.o),
     d |-> Dot4(A.a, B.d, A.b, B.h, A.c, B.l, A.d, B.p),
     e |-> Dot4(A.e, B.a, A.f, B.e, A.g, B.i, A.h, B.m),
     f |-> Dot4(A.e, B.b, A.f, B.f, A.g, B.j, A.h, B.n),
     g |-> Dot4(A.e, B.c, A.f, B.g, A.g, B.k, A.h, B.o),
     h |-> Dot4(A.e, B.d, A.f, B.h, A.g, B.l, A.h, B.p),
     i |-> Dot4(A.i, B.a, A.j, B.e, A.k, B.i, A.l, B.m),
     j |-> Dot4(A.i, B.b, A.j, B.f, A.k, B.j, A.l, B.n),
     k |-> Dot4(A.i, B.c, A.j, B.g, A.k, B.k, A.l, B.o),
     l |-> Dot4(A.i, B.d, A.j, B.h, A.k, B.l, A.l, B.p),
     m |-> Dot4(A.m, B.a, A.n, B.e, A.o, B.i, A.p, B.m),
     n |-> Dot4(A.m, B.b, A.n, B.f, A.o, B.j, A.p, B.n),
     o |-> Dot4(A.m, B.c, A.n, B.g, A.o, B.k, A.p, B.o),
     p |-> Dot4(A.m, B.d, A.n, B.h, A.o, B.l, A.p, B.p)]

\* the receiver object after self.__imul__(other) has written its cells
Written_by_imul(self, other) ==
    Obj(self.id, IF self.val.cls = "Matrix3" THEN Matrix3___imul__(self.val, other)
                 ELSE Matrix4___imul__(self.val, other))

\* what self.__imul__(other) returns: Matrix3.__imul__ ends with return self,
\* Matrix4.__imul__ has no return statement
__imul__(self, other) ==
    IF self.val.cls = "Matrix3" THEN Written_by_imul(self, other) ELSE None

\* the arguments of the mutators
QuarterTurn == Angle(Q(0), Q(1))

Angles == {QuarterTurn, Angle(Rat(4, 5), Rat(3, 5))}

Factors == {<<Q(2), Q(1), Q(3)>>, <<Q(1), Q(1), Q(1)>>}

Offsets == {<<Q(1), Q(2), Q(3)>>, <<Q(0), Q(0), Q(0)>>}

Axes == {V3(0, 0, 1), V3(0, 2, 0)}

Eulers == {<<QuarterTurn, Angle(Rat(4, 5), Rat(3, 5)), QuarterTurn>>,
           <<Angle(Rat(4, 5), Rat(3, 5)), QuarterTurn, Angle(Q(1), Q(0))>>}

Frames == {<<V3(1, 0, 0), V3(0, 1, 0), V3(0, 0, 1)>>,
           <<V3(0, 1, 0), V3(0, 0, 1), V3(1, 0, 0)>>}

\* the receivers: the identity, an affine matrix with a translation and one
\* with a projective row
Chained4 ==
    {Matrix4,
     M4(<<1, 0, 0, 1,   0, 1, 0, 2,   0, 0, 1, -1,   0, 0, 0, 1>>),
     M4(<<1, 0, 0, 0,   0, 1, 0, 0,   0, 0, 1, 0,    1, 0, 1, 1>>)}

Chained3 ==
    {Matrix3,
     M3(<<1, 0, 1,   0, 1, 2,   0, 0, 1>>),
     M3(<<1, 0, 0,   0, 1, 0,   1, -1, 1>>)}

\* the objects a mutator can be called on: a fresh matrix, or what the
\* previous mutator of that class returned
Chain(pool) ==
    IF pc = "idle" THEN {Obj("self", M) : M \in pool}
    ELSE IF pc = "returned" /\ how.cls = "chain" /\ how.depth < MaxChain
              /\ ~IsError(res)
              /\ \E M \in pool : M.cls = how.of
         THEN {res}
    ELSE {}

\* self.<o>(args): self *= new; return self.  The augmented assignment binds
\* self to what __imul__ returns.  Called on None (what a Matrix4 mutator
\* returned) the attribute lookup fails and the matrix is left as it is.
Mutator(o, self, args, new) ==
    /\ pc' = "returned"
    /\ op' = o
    /\ given' = <<self, args>>
    /\ rhs' = new
    /\ lhs' = IF self.cls = "None" THEN lhs ELSE Written_by_imul(self, new)
    /\ res' = IF self.cls = "None" THEN NoAttribute(self, o) ELSE __imul__(self, new)
    /\ how' = [cls |-> "chain", of |-> new.cls,
               depth |-> IF pc = "idle" THEN 1 ELSE how.depth + 1]
    /\ UNCHANGED <<howrev, rev>>

Scale3 ==
    \E self \in Chain(Chained3), t \in Factors :
        Mutator("Matrix3.scale", self, <<t[1], t[2]>>, Matrix3_new_scale(t[1], t[2]))

Translate3 ==
    \E self \in Chain(Chained3), t \in Offsets :
        Mutator("Matrix3.translate", self, <<t[1], t[2]>>, Matrix3_new_translate(t[1], t[2]))

Rotate3 ==
    \E self \in Chain(Chained3), angle \in Angles :
        Mutator("Matrix3.rotate", self, <<angle>>, Matrix3_new_rotate(angle))

Scale4 ==
    \E self \in Chain(Chained4), t \in Factors :
        Mutator("Matrix4.scale", self, t, Matrix4_new_scale(t[1], t[2], t[3]))

Translate4 ==
    \E self \in Chain(Chained4), t \in Offsets :
        Mutator("Matrix4.translate", self, t, Matrix4_new_translate(t[1], t[2], t[3]))

RotateX ==
    \E self \in Chain(Chained4), angle \in Angles :
        Mutator("Matrix4.rotate_x", self, <<angle>>, Matrix4_new_rotate_x(angle))

RotateY ==
    \E self \in Chain(Chained4), angle \in Angles :
        Mutator("Matrix4.rotate_y", self, <<angle>>, Matrix4_new_rotate_y(angle))

RotateZ ==
    \E self \in Chain(Chained4), angle \in Angles :
        Mutator("Matrix4.rotate_z", self, <<angle>>, Matrix4_new_rotate_z(angle))

RotateAxis ==
    \E self \in Chain(Chained4), angle \in Angles, axis \in Axes :
        Mutator("Matrix4.rotate_axis", self, <<angle, axis>>,
                Matrix4_new_rotate_axis(angle, axis))

RotateEuler ==
    \E self \in Chain(Chained4), t \in Eulers :
        Mutator("Matrix4.rotate_euler", self, t,
                Matrix4_new_rotate_euler(t[1], t[2], t[3]))

RotateTripleAxis ==
    \E self \in Chain(Chained4), t \in Frames :
        Mutator("Matrix4.rotate_triple_axis", self, t,
                Matrix4_new_rotate_triple_axis(t[1], t[2], t[3]))

NextChain ==
    \/ Scale3 \/ Translate3 \/ Rotate3
    \/ Scale4 \/ Translate4 \/ RotateX \/ RotateY \/ RotateZ
    \/ RotateAxis \/ RotateEuler \/ RotateTripleAxis
    \/ Reset

SpecChain == Init /\ [][NextChain]_vars

\* a mutator of Matrix3 or Matrix4 was called on a matrix and has returned
Mutated == pc = "returned" /\ how.cls = "chain" /\ given[1].cls = "object"

\* receiver * new_<op>(args), by __mul__
Product(A, B) == IF A.cls = "Matrix3" THEN Matrix3_mul(A, B) ELSE Matrix4_mul(A, B)

\* C30 as stated: the in-place transform mutators of Matrix3 and Matrix4
\* (scale, translate, rotate / rotate_x / rotate_y / rotate_z / rotate_axis /
\* rotate_euler / rotate_triple_axis) each set the receiver to
\* receiver * new_<op>(args) and return that same receiver object, so that
\* calls can be chained; the behaviour is the same for Matrix3 and Matrix4.
C30_MutatorIsProduct ==
    Mutated
    => /\ lhs = Obj(given[1].id, Product(given[1].val, rhs))
       /\ res = lhs

\* C30, the part that holds: every mutator sets the receiver to
\* receiver * new_<op>(args); the Matrix3 mutators return the receiver, the
\* Matrix4 mutators return None.
C30_ProductInPlace ==
    Mutated
    => /\ lhs = Obj(given[1].id, Product(given[1].val, rhs))
       /\ res = IF how.of = "Matrix3" THEN lhs ELSE None

\* C30, the failing case: Matrix4().translate(1, 2, 3) translates the
\* receiver and returns None
C30_Matrix4ReturnsNone ==
    /\ Mutated /\ op = "Matrix4.translate"
    /\ given[1].val = Matrix4 /\ given[2] = <<Q(1), Q(2), Q(3)>>
    /\ lhs.val.d = Q(1) /\ lhs.val.h = Q(2) /\ lhs.val.l = Q(3)
    /\ res = None

\* a Matrix4 mutator chained on the result of another raises and leaves the
\* matrix as the first call made it
C30_ChainBreaks ==
    /\ pc = "returned" /\ how.cls = "chain" /\ how.depth = 2
    /\ how.of = "Matrix4" /\ given[1] = None
    /\ IsError(res) /\ res.exc = "AttributeError"
    /\ lhs.cls = "object"

\* a second mutator called on the object the first Matrix3 mutator returned
C30_ChainedMatrix3 ==
    /\ Mutated /\ how.depth = 2 /\ op = "Matrix3.rotate"
    /\ given[1].val # Matrix3
    /\ lhs.val = Matrix3_mul(given[1].val, rhs)
    /\ lhs.val # given[1].val
    /\ res = lhs

============================================================================
